---- MODULE Spec2Model ----
(***************************************************************************)
(* Physical page allocator (4KB / 2MB pages, two doubly-linked free lists  *)
(* threaded through a per-frame metadata array) and the interrupt-         *)
(* disabling spinlock that guards it.                                      *)
(*                                                                         *)
(*   Spec      : allocate_page / free_page as whole calls, run one after   *)
(*               the other on the state PageAllocator::init leaves.        *)
(*   SpecMutex : Mutex::lock / Mutex::try_lock / MutexGuard::drop at the   *)
(*               granularity of their machine steps, called in any order   *)
(*               from kernel code and from an interrupt handler on one     *)
(*               processor.                                                *)
(*   SpecIrq   : the allocator's calls at the granularity of their lock    *)
(*               operations, with an interrupt handler that itself calls   *)
(*               the allocator.                                            *)
(***************************************************************************)
EXTENDS Integers, Sequences, FiniteSets, TLC

(***************************************************************************)
(* Program constants.                                                      *)
(***************************************************************************)
PAGE_SIZE_4KB == 4096

\* 512 in the source. The model runs with a smaller superpage; every
\* definition below is written for an arbitrary value.
PAGES_PER_2MB == 2

PAGE_SIZE_2MB == PAGES_PER_2MB * PAGE_SIZE_4KB

\* counter: u16
U16_MAX == 65535

\* size_of::<PageMetadata>(): two Option<usize> (16 bytes each), a u16 and a
\* one-byte enum, padded to the alignment of usize.
SIZEOF_PageMetadata == 40

(***************************************************************************)
(* Bounds of the model.                                                    *)
(***************************************************************************)
\* number of superpages of physical memory the boot memory maps describe
MaxSuperpages == 3

\* free_page calls made from the first one that names no outstanding
\* allocation on (that call included), per behaviour
MaxMisuse == 2

(***************************************************************************)
(* Option<usize>: None is the empty sequence, Some(n) the sequence <<n>>.  *)
(***************************************************************************)
None == <<>>

Some(n) == <<n>>

unwrap(o) == o[1]

Max(a, b) == IF a > b THEN a ELSE b

\* (x + align - 1) & !(align - 1)
align_up(x, align) == ((x + align - 1) \div align) * align

\* u16::saturating_sub(1)
saturating_sub1(c) == IF c = 0 THEN 0 ELSE c - 1

\* u16::saturating_add(1)
saturating_add1(c) == IF c >= U16_MAX THEN U16_MAX ELSE c + 1

\* `PAGES_PER_2MB as u16`
PAGES_PER_2MB_u16 == PAGES_PER_2MB % (U16_MAX + 1)

\* (pfn / PAGES_PER_2MB) * PAGES_PER_2MB
sp_head_of(pfn) == (pfn \div PAGES_PER_2MB) * PAGES_PER_2MB

PageSize == {"Size4KB", "Size2MB"}

PageState == {"Unavailable", "Free4KB", "Free2MB", "Allocated"}

\* PageMetadata::new()
PageMetadata_new ==
    [state |-> "Unavailable", next |-> None, prev |-> None, counter |-> 0]

VARIABLES
    \* PageAllocator
    pages,            \* page_array: frame number -> PageMetadata
    free_4kb_list,    \* Option<usize>: head of the 4KB list
    free_2mb_list,    \* Option<usize>: head of the 2MB list
    kernel_end,       \* the reserved end recorded by init
    panicked,         \* a slice index was out of bounds: the kernel is in panic()
    \* Mutex and processor
    locked,           \* Mutex::locked of each of the allocator's mutexes
    rflags_if,        \* RFLAGS.IF (bit 9) of the processor
    ctx,              \* per execution context: position, locals, guards
    lock_order,       \* (history) <<a, b>>: some context acquired b while holding a
    \* history of the calls made (not program state)
    outstanding,      \* <<addr, size>> returned by allocate_page and not freed since
    freed4,           \* addresses last passed to free_page(_, Size4KB), not allocated since
    carved,           \* per superpage head: frames allocated as 4KB since its last split
    misuse,           \* free_page calls since the first one that named no
                      \* outstanding allocation, that call included; 0 while
                      \* there was none
    overlap,          \* some allocate_page returned bytes of an outstanding page
    available,        \* frames init made available (1 per Free4KB, 512 per Free2MB)
    call,             \* the last call: operation, size, result, and whether it
                      \* was a free_page(a, Size4KB) of an address in freed4
    pending,          \* per size: the pages freed with that size and neither
                      \* returned nor merged since, the last freed first
    boot,             \* memory::init: the memory map tag of the boot information,
                      \* the address of __end, and the position reached
    \* HeapAllocator
    heap              \* the free list from HeapAllocator::head, each context's
                      \* position in alloc / dealloc / add_free_region with its
                      \* locals, and (history) the regions added and the blocks
                      \* returned

allocVars == <<pages, free_4kb_list, free_2mb_list, kernel_end, panicked>>

lockVars == <<locked, rflags_if, ctx, lock_order>>

histVars == <<outstanding, freed4, carved, misuse, overlap, available, call, pending, boot, heap>>

vars == <<allocVars, lockVars, histVars>>

\* pages.len()
pages_len(pg) == Cardinality(DOMAIN pg)

(***************************************************************************)
(* PageAllocator::init and its helpers.                                    *)
(***************************************************************************)
MemoryArea(base, length, typ) == [base_addr |-> base, length |-> length, typ |-> typ]

\* highest end address over the type-1 entries (init, first loop)
RECURSIVE actual_max_of(_, _)
actual_max_of(mmap, i) ==
    IF i > Len(mmap) THEN 0
    ELSE LET rest == actual_max_of(mmap, i + 1)
             end_addr == mmap[i].base_addr + mmap[i].length
         IN IF mmap[i].typ = 1 /\ end_addr > rest THEN end_addr ELSE rest

\* total_pages from the highest end address over the entries of every type
total_pages_of_all_types(mmap) ==
    LET ends == {0} \cup {mmap[i].base_addr + mmap[i].length : i \in 1 .. Len(mmap)}
        top == CHOOSE m \in ends : \A x \in ends : x <= m
    IN align_up(top, PAGE_SIZE_2MB) \div PAGE_SIZE_4KB

\* total_pages of init
total_pages_of(mmap) ==
    align_up(actual_max_of(mmap, 1), PAGE_SIZE_2MB) \div PAGE_SIZE_4KB

\* final_kernel_end of init, from the linker symbol __end
final_kernel_end_of(mmap, end_sym) ==
    LET kend == align_up(end_sym, PAGE_SIZE_4KB)
        metadata_size == total_pages_of(mmap) * SIZEOF_PageMetadata
    IN align_up(kend + metadata_size, PAGE_SIZE_4KB)

\* the while loop of mark_available, from frame pfn on
RECURSIVE mark_loop(_, _, _)
\* the loop without the test that the 2MB page ends inside the region
RECURSIVE mark_loop_past_region(_, _, _)
mark_loop_past_region(pg, pfn, end_pfn) ==
    IF ~(pfn < end_pfn /\ pfn < pages_len(pg)) THEN pg
    ELSE IF /\ (pfn * PAGE_SIZE_4KB) % PAGE_SIZE_2MB = 0
            /\ pfn + PAGES_PER_2MB <= pages_len(pg)
         THEN mark_loop_past_region(
                [p \in DOMAIN pg |->
                    IF p = pfn
                    THEN [pg[p] EXCEPT !.state = "Free2MB", !.counter = PAGES_PER_2MB_u16]
                    ELSE IF p > pfn /\ p < pfn + PAGES_PER_2MB
                         THEN [pg[p] EXCEPT !.state = "Unavailable"]
                         ELSE pg[p]],
                pfn + PAGES_PER_2MB, end_pfn)
         ELSE mark_loop_past_region([pg EXCEPT ![pfn].state = "Free4KB"], pfn + 1, end_pfn)

\* the loop without its "Try to make 2MB page" branch
mark_loop_4kb_only(pg, pfn, end_pfn) ==
    [p \in DOMAIN pg |->
        IF p >= pfn /\ p < end_pfn THEN [pg[p] EXCEPT !.state = "Free4KB"] ELSE pg[p]]

mark_loop(pg, pfn, end_pfn) ==
    IF ~(pfn < end_pfn /\ pfn < pages_len(pg)) THEN pg
    ELSE IF /\ (pfn * PAGE_SIZE_4KB) % PAGE_SIZE_2MB = 0
            /\ pfn + PAGES_PER_2MB <= end_pfn
            /\ pfn + PAGES_PER_2MB <= pages_len(pg)
         THEN mark_loop(
                [p \in DOMAIN pg |->
                    IF p = pfn
                    THEN [pg[p] EXCEPT !.state = "Free2MB", !.counter = PAGES_PER_2MB_u16]
                    ELSE IF p > pfn /\ p < pfn + PAGES_PER_2MB
                         THEN [pg[p] EXCEPT !.state = "Unavailable"]
                         ELSE pg[p]],
                pfn + PAGES_PER_2MB, end_pfn)
         ELSE mark_loop([pg EXCEPT ![pfn].state = "Free4KB"], pfn + 1, end_pfn)

\* mark_available without the reserved-end boundary
mark_available_from_start(pg, kend, base, length) ==
    mark_loop(pg, base \div PAGE_SIZE_4KB, (base + length) \div PAGE_SIZE_4KB)

mark_available(pg, kend, base, length) ==
    LET start_pfn == base \div PAGE_SIZE_4KB
        end_pfn == (base + length) \div PAGE_SIZE_4KB
        kernel_pfn == kend \div PAGE_SIZE_4KB
    IN mark_loop(pg, Max(start_pfn, kernel_pfn), end_pfn)

\* init, second loop: mark_available for every type-1 entry, in order
RECURSIVE mark_all(_, _, _, _)
mark_all(pg, kend, mmap, i) ==
    IF i > Len(mmap) THEN pg
    ELSE mark_all(
            IF mmap[i].typ = 1
            THEN mark_available(pg, kend, mmap[i].base_addr, mmap[i].length)
            ELSE pg,
            kend, mmap, i + 1)

\* build_lists, from frame pfn on; L = [pages, head_4kb, head_2mb]
RECURSIVE build_loop(_, _)
build_loop(L, pfn) ==
    IF pfn >= pages_len(L.pages) THEN L
    ELSE LET pg == L.pages IN
         CASE pg[pfn].state = "Free4KB" ->
                LET p1 == [pg EXCEPT ![pfn].next = L.head_4kb, ![pfn].prev = None]
                    p2 == IF L.head_4kb # None
                          THEN [p1 EXCEPT ![unwrap(L.head_4kb)].prev = Some(pfn)]
                          ELSE p1
                IN build_loop([L EXCEPT !.pages = p2, !.head_4kb = Some(pfn)], pfn + 1)
           [] pg[pfn].state = "Free2MB" ->
                LET p1 == [pg EXCEPT ![pfn].next = L.head_2mb, ![pfn].prev = None]
                    p2 == IF L.head_2mb # None
                          THEN [p1 EXCEPT ![unwrap(L.head_2mb)].prev = Some(pfn)]
                          ELSE p1
                IN build_loop([L EXCEPT !.pages = p2, !.head_2mb = Some(pfn)], pfn + 1)
           [] OTHER -> build_loop(L, pfn + 1)

build_lists(pg) == build_loop([pages |-> pg, head_4kb |-> None, head_2mb |-> None], 0)

\* the allocator state init leaves: [pages, head_4kb, head_2mb, kernel_end]
init(mmap, end_sym) ==
    LET total_pages == total_pages_of(mmap)
        fresh == [p \in 0 .. total_pages - 1 |-> PageMetadata_new]
        kend == final_kernel_end_of(mmap, end_sym)
        L == build_lists(mark_all(fresh, kend, mmap, 1))
    IN [pages |-> L.pages, head_4kb |-> L.head_4kb, head_2mb |-> L.head_2mb,
        kernel_end |-> kend]

\* Boot inputs: the memory maps and the addresses of the linker symbol __end.
MemTop == MaxSuperpages * PAGE_SIZE_2MB

MemoryMaps ==
    { <<MemoryArea(0, MemTop, 1)>>,
      <<MemoryArea(0, PAGE_SIZE_2MB, 1),
        MemoryArea(PAGE_SIZE_2MB, PAGE_SIZE_4KB, 2),
        MemoryArea(PAGE_SIZE_2MB + PAGE_SIZE_4KB,
                   MemTop - PAGE_SIZE_2MB - PAGE_SIZE_4KB, 1)>> }

EndSymbols == {1, PAGE_SIZE_4KB + 1}

\* the one boot of SpecMisuse, SpecMutex and SpecIrq: a free 4KB frame below
\* whole free superpages
SingleMap == { <<MemoryArea(0, MemTop, 1)>> }

SingleEndSymbol == {PAGE_SIZE_4KB + 1}

(***************************************************************************)
(* The allocator's operations on A = [pages, free_4kb_list, free_2mb_list,*)
(* panic], one operator per stretch of code between two lock operations.   *)
(* panic is set by a slice index that is out of bounds; the operation ends *)
(* there, in the panic handler.                                            *)
(***************************************************************************)
AllocState(pg, h4, h2) ==
    [pages |-> pg, free_4kb_list |-> h4, free_2mb_list |-> h2, panic |-> FALSE]

\* "Remove from list" of alloc_4kb / alloc_2mb / split_2mb: the pages after
\* `pages[next].prev = None` for the successor of the popped head pfn
clear_next_prev(pg, pfn) ==
    IF pg[pfn].next # None THEN [pg EXCEPT ![unwrap(pg[pfn].next)].prev = None] ELSE pg

\* state = Allocated, next = prev = None
mark_allocated(pg, pfn) ==
    [pg EXCEPT ![pfn].state = "Allocated", ![pfn].next = None, ![pfn].prev = None]

\* (mutant) the pop without `*head = pages[pfn].next`
alloc_4kb_pop_keeps_head(A, pfn) ==
    [A EXCEPT !.pages = mark_allocated(clear_next_prev(A.pages, pfn), pfn)]

\* alloc_4kb, under free_4kb_list and page_array: pop the head pfn
alloc_4kb_pop(A, pfn) ==
    [A EXCEPT !.free_4kb_list = A.pages[pfn].next,
              !.pages = mark_allocated(clear_next_prev(A.pages, pfn), pfn)]

\* (mutant) alloc_4kb that leaves the superpage counter alone
alloc_4kb_counter_skipped(A, pfn) == A

\* alloc_4kb, after drop(head): "Update superpage counter"
alloc_4kb_counter(A, pfn) ==
    LET sp_head == sp_head_of(pfn) IN
    IF sp_head < pages_len(A.pages)
    THEN [A EXCEPT !.pages[sp_head].counter = saturating_sub1(@)]
    ELSE A

\* (mutant) alloc_2mb that pops without `*head = pages[pfn].next`
alloc_2mb_pop_keeps_head(A, pfn) ==
    [A EXCEPT !.pages = mark_allocated(clear_next_prev(A.pages, pfn), pfn)]

\* alloc_2mb, under free_2mb_list and page_array: pop the head pfn
alloc_2mb_pop(A, pfn) ==
    [A EXCEPT !.free_2mb_list = A.pages[pfn].next,
              !.pages = mark_allocated(clear_next_prev(A.pages, pfn), pfn)]

\* (mutant) split_2mb without `*head = pages[pfn].next`
split_2mb_unlink_keeps_head(A, pfn) ==
    [A EXCEPT !.pages = clear_next_prev(A.pages, pfn)]

\* split_2mb, under free_2mb_list and page_array: "Remove from 2MB list"
split_2mb_unlink(A, pfn) ==
    [A EXCEPT !.free_2mb_list = A.pages[pfn].next,
              !.pages = clear_next_prev(A.pages, pfn)]

\* split_2mb: the push loop `for i in 0..PAGES_PER_2MB`, from i on
RECURSIVE split_2mb_loop(_, _, _)
split_2mb_loop(A, pfn, i) ==
    IF i >= PAGES_PER_2MB THEN A
    ELSE IF pfn + i >= pages_len(A.pages) THEN [A EXCEPT !.panic = TRUE]
    ELSE LET p == pfn + i
             p1 == [A.pages EXCEPT ![p].state = "Free4KB",
                                   ![p].next = A.free_4kb_list,
                                   ![p].prev = None]
             p2 == IF A.free_4kb_list # None
                   THEN [p1 EXCEPT ![unwrap(A.free_4kb_list)].prev = Some(p)]
                   ELSE p1
         IN split_2mb_loop([A EXCEPT !.pages = p2, !.free_4kb_list = Some(p)], pfn, i + 1)

\* (mutant) the push loop as `for i in 1..PAGES_PER_2MB`
split_2mb_push_from_1(A, pfn) ==
    split_2mb_loop([A EXCEPT !.pages[pfn].counter = 0], pfn, 1)

\* split_2mb, under page_array and free_4kb_list: counter = 0, then the loop
split_2mb_push(A, pfn) ==
    split_2mb_loop([A EXCEPT !.pages[pfn].counter = 0], pfn, 0)

\* free_4kb: "Mark as free first" and the counter update
free_4kb_mark(A, pfn) ==
    LET p1 == [A.pages EXCEPT ![pfn].state = "Free4KB"]
        sp_head == sp_head_of(pfn)
    IN IF sp_head < pages_len(p1)
       THEN [A EXCEPT !.pages = [p1 EXCEPT ![sp_head].counter = saturating_add1(@)]]
       ELSE [A EXCEPT !.pages = p1]

\* free_4kb: can_merge, evaluated on the state free_4kb_mark leaves
free_4kb_can_merge(A, pfn) ==
    LET sp_head == sp_head_of(pfn) IN
    IF sp_head < pages_len(A.pages)
    THEN A.pages[sp_head].counter = PAGES_PER_2MB_u16
    ELSE FALSE

\* (mutant) "Add to 4KB list" behind the head: without `*head = Some(pfn)`,
\* the frame linked after the old head
free_4kb_push_behind_head(A, pfn) ==
    IF A.free_4kb_list = None
    THEN [A EXCEPT !.pages[pfn].next = None, !.pages[pfn].prev = None,
                   !.free_4kb_list = Some(pfn)]
    ELSE LET h == unwrap(A.free_4kb_list)
             n == A.pages[h].next
             p1 == [A.pages EXCEPT ![pfn].next = n, ![pfn].prev = Some(h),
                                   ![h].next = Some(pfn)]
             p2 == IF n # None THEN [p1 EXCEPT ![unwrap(n)].prev = Some(pfn)] ELSE p1
         IN [A EXCEPT !.pages = p2]

\* free_4kb, under page_array and free_4kb_list: "Add to 4KB list"
free_4kb_push(A, pfn) ==
    LET p1 == [A.pages EXCEPT ![pfn].next = A.free_4kb_list, ![pfn].prev = None]
        p2 == IF A.free_4kb_list # None /\ unwrap(A.free_4kb_list) < pages_len(p1)
              THEN [p1 EXCEPT ![unwrap(A.free_4kb_list)].prev = Some(pfn)]
              ELSE p1
    IN [A EXCEPT !.pages = p2, !.free_4kb_list = Some(pfn)]

\* free_2mb: state and counter of the aligned head
free_2mb_mark(A, aligned_pfn) ==
    [A EXCEPT !.pages[aligned_pfn].state = "Free2MB",
              !.pages[aligned_pfn].counter = PAGES_PER_2MB_u16]

\* free_2mb, under page_array and free_2mb_list: push the aligned head
free_2mb_push(A, aligned_pfn) ==
    LET p1 == [A.pages EXCEPT ![aligned_pfn].next = A.free_2mb_list,
                              ![aligned_pfn].prev = None]
        p2 == IF A.free_2mb_list # None
              THEN [p1 EXCEPT ![unwrap(A.free_2mb_list)].prev = Some(aligned_pfn)]
              ELSE p1
    IN [A EXCEPT !.pages = p2, !.free_2mb_list = Some(aligned_pfn)]

\* try_merge with the counter check alone, without the loop over the states
try_merge_checks_counter_only(A, sp_head) ==
    A.pages[sp_head].counter = PAGES_PER_2MB_u16

\* try_merge: the two checks made under page_array before anything is changed
try_merge_checks(A, sp_head) ==
    /\ A.pages[sp_head].counter = PAGES_PER_2MB_u16
    /\ \A i \in 0 .. PAGES_PER_2MB - 1 :
          /\ sp_head + i < pages_len(A.pages)
          /\ A.pages[sp_head + i].state = "Free4KB"

\* the removal loop without `pages[next_p].prev = prev`
RECURSIVE try_merge_unlink_no_prev_patch(_, _, _)
try_merge_unlink_no_prev_patch(A, sp_head, i) ==
    IF i >= PAGES_PER_2MB THEN A
    ELSE LET p == sp_head + i
             prev == A.pages[p].prev
             next == A.pages[p].next
             p1 == IF prev # None
                   THEN IF unwrap(prev) < pages_len(A.pages)
                        THEN [A.pages EXCEPT ![unwrap(prev)].next = next]
                        ELSE A.pages
                   ELSE A.pages
             h == IF prev # None THEN A.free_4kb_list ELSE next
             p3 == [p1 EXCEPT ![p].next = None, ![p].prev = None]
         IN try_merge_unlink_no_prev_patch(
                [A EXCEPT !.pages = p3, !.free_4kb_list = h], sp_head, i + 1)

\* try_merge: "Remove all from 4KB list", from i on
RECURSIVE try_merge_unlink(_, _, _)
try_merge_unlink(A, sp_head, i) ==
    IF i >= PAGES_PER_2MB THEN A
    ELSE LET p == sp_head + i
             prev == A.pages[p].prev
             next == A.pages[p].next
             p1 == IF prev # None
                   THEN IF unwrap(prev) < pages_len(A.pages)
                        THEN [A.pages EXCEPT ![unwrap(prev)].next = next]
                        ELSE A.pages
                   ELSE A.pages
             h == IF prev # None THEN A.free_4kb_list ELSE next
             p2 == IF next # None /\ unwrap(next) < pages_len(p1)
                   THEN [p1 EXCEPT ![unwrap(next)].prev = prev]
                   ELSE p1
             p3 == [p2 EXCEPT ![p].next = None, ![p].prev = None]
         IN try_merge_unlink([A EXCEPT !.pages = p3, !.free_4kb_list = h], sp_head, i + 1)

\* try_merge: non-head frames Unavailable, head Free2MB with counter 512
try_merge_mark(A, sp_head) ==
    [A EXCEPT !.pages =
        [p \in DOMAIN A.pages |->
            IF p = sp_head
            THEN [A.pages[p] EXCEPT !.state = "Free2MB", !.counter = PAGES_PER_2MB_u16]
            ELSE IF p > sp_head /\ p < sp_head + PAGES_PER_2MB
                 THEN [A.pages[p] EXCEPT !.state = "Unavailable"]
                 ELSE A.pages[p]]]

\* try_merge, under page_array and free_2mb_list: "Add as 2MB page"
try_merge_push(A, sp_head) ==
    LET p1 == [A.pages EXCEPT ![sp_head].next = A.free_2mb_list, ![sp_head].prev = None]
        p2 == IF A.free_2mb_list # None /\ unwrap(A.free_2mb_list) < pages_len(p1)
              THEN [p1 EXCEPT ![unwrap(A.free_2mb_list)].prev = Some(sp_head)]
              ELSE p1
    IN [A EXCEPT !.pages = p2, !.free_2mb_list = Some(sp_head)]

(***************************************************************************)
(* The operations as whole calls: [st: the state left, ret: the result].   *)
(***************************************************************************)
split_2mb(A) ==
    IF A.free_2mb_list = None THEN [st |-> A, ret |-> None]
    ELSE LET pfn == unwrap(A.free_2mb_list)
             done == split_2mb_push(split_2mb_unlink(A, pfn), pfn)
         IN [st |-> done, ret |-> IF done.panic THEN None ELSE Some(0)]

RECURSIVE alloc_4kb(_)
alloc_4kb(A) ==
    IF A.free_4kb_list # None
    THEN LET pfn == unwrap(A.free_4kb_list)
         IN [st |-> alloc_4kb_counter(alloc_4kb_pop(A, pfn), pfn),
             ret |-> Some(pfn * PAGE_SIZE_4KB)]
    ELSE IF A.free_2mb_list = None THEN [st |-> A, ret |-> None]
    ELSE LET s == split_2mb(A)
         IN IF s.ret = None THEN [st |-> s.st, ret |-> None] ELSE alloc_4kb(s.st)

alloc_2mb(A) ==
    IF A.free_2mb_list = None THEN [st |-> A, ret |-> None]
    ELSE LET pfn == unwrap(A.free_2mb_list)
         IN [st |-> alloc_2mb_pop(A, pfn), ret |-> Some(pfn * PAGE_SIZE_4KB)]

\* (mutant) allocate_page(Size4KB) that gives up when the 4KB list is empty
allocate_page_no_split(A, size) ==
    IF size = "Size2MB" THEN alloc_2mb(A)
    ELSE IF A.free_4kb_list = None THEN [st |-> A, ret |-> None]
    ELSE alloc_4kb(A)

allocate_page(A, size) ==
    IF size = "Size4KB" THEN alloc_4kb(A) ELSE alloc_2mb(A)

try_merge(A, pfn) ==
    LET sp_head == sp_head_of(pfn) IN
    IF ~try_merge_checks(A, sp_head) THEN A
    ELSE try_merge_push(try_merge_mark(try_merge_unlink(A, sp_head, 0), sp_head), sp_head)

free_4kb(A, pfn) ==
    IF pfn >= pages_len(A.pages) THEN A
    ELSE IF A.pages[pfn].state = "Free4KB" THEN A
    ELSE LET marked == free_4kb_mark(A, pfn)
             pushed == free_4kb_push(marked, pfn)
         IN IF free_4kb_can_merge(marked, pfn) THEN try_merge(pushed, pfn) ELSE pushed

\* free_2mb without the alignment of the frame number
free_2mb_unaligned(A, pfn) ==
    IF pfn >= pages_len(A.pages) THEN [A EXCEPT !.panic = TRUE]
    ELSE IF A.pages[pfn].state = "Free2MB" THEN A
    ELSE free_2mb_push(free_2mb_mark(A, pfn), pfn)

free_2mb(A, pfn) ==
    LET aligned_pfn == sp_head_of(pfn) IN
    IF aligned_pfn >= pages_len(A.pages) THEN [A EXCEPT !.panic = TRUE]
    ELSE IF A.pages[aligned_pfn].state = "Free2MB" THEN A
    ELSE free_2mb_push(free_2mb_mark(A, aligned_pfn), aligned_pfn)

free_page(A, addr, size) ==
    LET pfn == addr \div PAGE_SIZE_4KB IN
    IF size = "Size4KB" THEN free_4kb(A, pfn) ELSE free_2mb(A, pfn)

(***************************************************************************)
(* Mutexes, execution contexts.                                            *)
(***************************************************************************)
\* the four Mutex fields of PageAllocator
Mutexes == {"page_array", "free_4kb_list", "free_2mb_list", "kernel_end"}

\* one processor: kernel code, and an interrupt handler that preempts it
Contexts == {"kernel", "irq"}

\* A context that is in no call and holds no guard.
\*   pc        position in the allocator's code ("idle": in no call)
\*   mx, m     position inside the Mutex call in progress and its mutex
\*   enabled   the local interrupts_enabled of lock / try_lock, and
\*             self.interrupts_were_enabled inside drop
\*   guards    per mutex "none", or the guard's interrupts_were_enabled as
\*             "on" / "off"
\*   tried     result of the last try_lock: "none", "some" or "fail"
\*   at_call, born   (history) RFLAGS.IF when the Mutex call in progress was
\*             made, and when the lock() that produced each guard was made
\*   op, size, addr, pfn, can_merge, ret   the allocator call and its locals
\*   split     (history) the call has taken a block off the 2MB list in split_2mb
IdleCtx ==
    [pc |-> "idle", guards |-> [m \in Mutexes |-> "none"],
     mx |-> "none", m |-> "none", enabled |-> FALSE, tried |-> "none",
     at_call |-> FALSE, born |-> [m \in Mutexes |-> FALSE],
     op |-> "none", size |-> "none", addr |-> 0, pfn |-> 0,
     can_merge |-> FALSE, ret |-> None, split |-> FALSE]

(***************************************************************************)
(* History of the calls.                                                   *)
(***************************************************************************)
bytes_of(size) == IF size = "Size4KB" THEN PAGE_SIZE_4KB ELSE PAGE_SIZE_2MB

\* the outstanding allocations of this size whose bytes contain addr
matching(out, addr, size) ==
    {o \in out : o[2] = size /\ o[1] <= addr /\ addr < o[1] + bytes_of(size)}

\* [a, a + size) meets the bytes of an outstanding page
overlaps(out, a, size) ==
    \E o \in out : a < o[1] + bytes_of(o[2]) /\ o[1] < a + bytes_of(size)

\* 4KB frame addresses inside [a, a + size)
frames_in(a, size) ==
    {a + i * PAGE_SIZE_4KB : i \in 0 .. (bytes_of(size) \div PAGE_SIZE_4KB) - 1}

\* the start of the 4KB frame addr lies in
frame_addr(addr) == (addr \div PAGE_SIZE_4KB) * PAGE_SIZE_4KB

\* the 4KB frame numbers of the superpage with head sp
superpage_frames(sp) == sp .. sp + PAGES_PER_2MB - 1

Superpages(pg) == {p \in DOMAIN pg : p % PAGES_PER_2MB = 0}

\* frames the metadata array shows free: 1 per Free4KB, 512 per Free2MB (the
\* scan at the end of init)
free_frames(pg) ==
    Cardinality({p \in DOMAIN pg : pg[p].state = "Free4KB"})
    + PAGES_PER_2MB * Cardinality({p \in DOMAIN pg : pg[p].state = "Free2MB"})

\* frames handed out: 1 per 4KB allocation, 512 per 2MB allocation
allocated_frames(out) ==
    Cardinality({o \in out : o[2] = "Size4KB"})
    + PAGES_PER_2MB * Cardinality({o \in out : o[2] = "Size2MB"})

\* the frames a list holds, walking next from its head (at most pages.len()
\* steps: a corrupted list may loop)
RECURSIVE list_walk(_, _, _)
list_walk(pg, head, n) ==
    IF head = None \/ n = 0 THEN <<>>
    ELSE <<unwrap(head)>> \o list_walk(pg, pg[unwrap(head)].next, n - 1)

list_frames(pg, head) ==
    LET w == list_walk(pg, head, pages_len(pg)) IN {w[i] : i \in 1 .. Len(w)}

\* the last call: refree, it was a free_page(a, Size4KB) of an address freed
\* before and not allocated since; stray, some free_page so far named neither
\* an outstanding allocation nor such an address; addr, the address given to
\* free_page; after_free, <<address, size>> of the free_page call made just
\* before this call, if the call before was one
\* scattered, the call was a free_page that merged a superpage some of whose
\* frames sat in the 4KB list between frames of other superpages
NoCall ==
    [op |-> "none", size |-> "none", ret |-> None, refree |-> FALSE,
     stray |-> FALSE, addr |-> 0, after_free |-> <<>>, scattered |-> FALSE]

CurrentState == AllocState(pages, free_4kb_list, free_2mb_list)

\* the superpage an allocate_page(Size4KB) on A splits, if it splits one
split_by_alloc(A) ==
    IF A.free_4kb_list = None /\ A.free_2mb_list # None THEN A.free_2mb_list ELSE None

hist_after_alloc(A, size, ret) ==
    LET sp == split_by_alloc(A)
        c1 == IF size = "Size4KB" /\ sp # None
              THEN [carved EXCEPT ![unwrap(sp)] = [split |-> TRUE, got |-> {}]]
              ELSE carved
        c2 == IF ret = None THEN c1
              ELSE LET pfn == unwrap(ret) \div PAGE_SIZE_4KB IN
                   IF size = "Size4KB"
                   THEN [c1 EXCEPT ![sp_head_of(pfn)].got = @ \cup {pfn}]
                   ELSE IF pfn \in DOMAIN c1
                        THEN [c1 EXCEPT ![pfn].split = FALSE]
                        ELSE c1
    IN /\ carved' = c2
       /\ outstanding' = IF ret = None THEN outstanding
                         ELSE outstanding \cup {<<unwrap(ret), size>>}
       /\ overlap' = (overlap \/ (ret # None /\ overlaps(outstanding, unwrap(ret), size)))
       /\ freed4' = IF ret = None THEN freed4 ELSE freed4 \ frames_in(unwrap(ret), size)
       /\ misuse' = misuse
       /\ available' = available
       /\ call' = [op |-> "allocate_page", size |-> size, ret |-> ret,
                   refree |-> FALSE, stray |-> call.stray, addr |-> 0,
                   after_free |-> IF call.op = "free_page"
                                  THEN <<call.addr, call.size>> ELSE <<>>,
                   scattered |-> FALSE]
       /\ pending' = IF ret # None /\ pending[size] # <<>>
                     THEN [pending EXCEPT ![size] = Tail(@)]
                     ELSE pending
       /\ boot' = boot
       /\ heap' = heap

\* pending after a free_page that gave back the outstanding pages hit: the
\* page is the last freed of its size, unless the free merged its superpage,
\* which takes the superpage's frames out of the 4KB pages
pending_after_free(hit, size) ==
    IF hit = {} THEN pending
    ELSE LET a == (CHOOSE o \in hit : TRUE)[1]
             pfn == a \div PAGE_SIZE_4KB
             merged == size = "Size4KB" /\ pages'[pfn].state # "Free4KB"
             gone == {frame_addr(p * PAGE_SIZE_4KB) : p \in superpage_frames(sp_head_of(pfn))}
         IN IF merged
            THEN [pending EXCEPT !["Size4KB"] = SelectSeq(@, LAMBDA x : x \notin gone)]
            ELSE [pending EXCEPT ![size] = <<a>> \o @]

\* the frames of the superpage of pfn sat in the 4KB list l with a frame of
\* another superpage before and one after some of them
scattered_in(l, pfn) ==
    LET F == superpage_frames(sp_head_of(pfn)) IN
    \E i, j, k \in 1 .. Len(l) :
        i < j /\ j < k /\ l[i] \notin F /\ l[j] \in F /\ l[k] \notin F

hist_after_free(addr, size) ==
    LET hit == matching(outstanding, addr, size)
        refree == size = "Size4KB" /\ frame_addr(addr) \in freed4
        pfn == addr \div PAGE_SIZE_4KB
        merged == /\ size = "Size4KB" /\ hit # {}
                  /\ pages[sp_head_of(pfn)].state # "Free2MB"
                  /\ pages'[sp_head_of(pfn)].state = "Free2MB"
    IN
    /\ outstanding' = outstanding \ hit
    /\ misuse' = IF hit = {} \/ misuse > 0 THEN misuse + 1 ELSE 0
    /\ freed4' = IF size = "Size4KB"
                 THEN freed4 \cup {frame_addr(addr)}
                 ELSE freed4
    /\ call' = [op |-> "free_page", size |-> size, ret |-> None,
                 refree |-> refree,
                 stray |-> (call.stray \/ (hit = {} /\ ~refree)),
                 addr |-> addr, after_free |-> <<>>,
                 scattered |-> (merged /\ scattered_in(
                                   list_walk(pages, free_4kb_list, pages_len(pages)), pfn))]
    /\ pending' = pending_after_free(hit, size)
    /\ UNCHANGED <<carved, overlap, available, boot, heap>>

(***************************************************************************)
(* Spec: whole calls, one after the other, every free_page naming an       *)
(* outstanding allocation. SpecMisuse: free_page with any address and size.*)
(***************************************************************************)
\* A context in no call of the heap.
\*   pc      position in alloc / dealloc / add_free_region ("idle": in no call)
\*   layout  the Layout the call was made with
\*   todo    the regions still to be passed to add_free_region, in order
\*   node    the region add_free_region builds its ListNode in, if it is in
\*           the call; next, the list the node took from head
\*   after   where the call goes on once todo is empty
\*   ret     the pointer alloc returns, the empty Option for null
\*   drawn   (history) frames the call took from the page allocator and kept
\*   contiguous  (history) when the call turned to the page allocator, it
\*           held pages_needed free frames at consecutive addresses
HeapIdle ==
    [pc |-> "idle", layout |-> <<>>, todo |-> <<>>, node |-> <<>>, next |-> <<>>,
     after |-> "idle", ret |-> <<>>, drawn |-> 0, contiguous |-> FALSE]

\* HeapAllocator::new(): head is None, the empty list.
\*   inited  HeapAllocator::init has run
\*   given   (history) regions passed to add_free_region and not taken out
\*           by find_region since
\*   held    (history) <<pointer, size>> returned by alloc and not passed to
\*           dealloc since
HeapAllocator_new ==
    [head |-> <<>>, inited |-> FALSE, cx |-> [c \in {"kernel", "irq"} |-> HeapIdle],
     given |-> {}, held |-> {}]

\* memory::init at position pc: tag is boot_info.memory_map_tag(), an Option;
\* i is the entry the marking loop of PageAllocator::init is at
BootAt(tag, end_sym, pc, i) == [tag |-> tag, end_sym |-> end_sym, pc |-> pc, i |-> i]

\* init has run as a whole: its inputs are not kept
Booted == BootAt(None, 0, "booted", 0)

Boot(maps, end_syms) ==
    \E mmap \in maps, end_sym \in end_syms :
        LET b == init(mmap, end_sym) IN
        /\ boot = Booted
        /\ heap = HeapAllocator_new
        /\ pages = b.pages
        /\ free_4kb_list = b.head_4kb
        /\ free_2mb_list = b.head_2mb
        /\ kernel_end = b.kernel_end
        /\ panicked = FALSE
        /\ locked = [m \in Mutexes |-> FALSE]
        /\ rflags_if = TRUE
        /\ ctx = [c \in Contexts |-> IdleCtx]
        /\ lock_order = {}
        /\ outstanding = {}
        /\ freed4 = {}
        /\ carved = [sp \in Superpages(b.pages) |-> [split |-> FALSE, got |-> {}]]
        /\ misuse = 0
        /\ overlap = FALSE
        /\ available = free_frames(b.pages)
        /\ call = NoCall
        /\ pending = [size \in PageSize |-> <<>>]

\* the addresses free_page is called with: every tracked frame and the
\* superpage after the last tracked one, at the frame start and inside it
FreeAddresses ==
    {pfn * PAGE_SIZE_4KB + off :
        pfn \in 0 .. pages_len(pages) + PAGES_PER_2MB - 1, off \in {0, 8}}

install(A) ==
    /\ pages' = A.pages
    /\ free_4kb_list' = A.free_4kb_list
    /\ free_2mb_list' = A.free_2mb_list
    /\ panicked' = A.panic

AllocatePage(size) ==
    /\ ~panicked
    /\ LET r == allocate_page(CurrentState, size) IN
        /\ install(r.st)
        /\ hist_after_alloc(CurrentState, size, r.ret)
    /\ UNCHANGED <<kernel_end, lockVars>>

FreePage(addr, size) ==
    /\ ~panicked
    /\ misuse < MaxMisuse
    /\ install(free_page(CurrentState, addr, size))
    /\ hist_after_free(addr, size)
    /\ UNCHANGED <<kernel_end, lockVars>>

Init == Boot(MemoryMaps, EndSymbols)

Next ==
    \/ \E size \in PageSize : AllocatePage(size)
    \/ \E addr \in FreeAddresses, size \in PageSize :
          matching(outstanding, addr, size) # {} /\ FreePage(addr, size)

Spec == Init /\ [][Next]_vars

InitMisuse == Boot(SingleMap, SingleEndSymbol)

NextMisuse ==
    \/ \E size \in PageSize : AllocatePage(size)
    \/ \E addr \in FreeAddresses, size \in PageSize : FreePage(addr, size)

SpecMisuse == InitMisuse /\ [][NextMisuse]_vars

(***************************************************************************)
(* SpecBoot: memory::init step by step, from the boot information to the   *)
(* free lists, then whole calls as in Spec.                                *)
(***************************************************************************)
\* Memory maps of the boot information, in bytes of a machine whose
\* superpage is PAGE_SIZE_2MB: a region that starts in the middle of a
\* superpage with the kernel ending at its start; a usable region whose base
\* is inside the frame a reserved region starts; a usable region whose
\* length is no multiple of the frame size, below a reserved region; a usable
\* region that ends one frame above a superpage boundary; a map with no
\* usable entry; a map with no entry.
ScenarioA == <<MemoryArea(PAGE_SIZE_2MB \div 2, 3 * (PAGE_SIZE_2MB \div 2), 1)>>

BootMemoryMaps ==
    { ScenarioA,
      <<MemoryArea(0, PAGE_SIZE_2MB, 1),
        MemoryArea(PAGE_SIZE_2MB, 1024, 2),
        MemoryArea(PAGE_SIZE_2MB + 1024, 2 * PAGE_SIZE_2MB - 1024, 1)>>,
      <<MemoryArea(0, 3 * PAGE_SIZE_2MB - 1024, 1),
        MemoryArea(3 * PAGE_SIZE_2MB, PAGE_SIZE_2MB, 2)>>,
      <<MemoryArea(0, 3 * PAGE_SIZE_2MB + PAGE_SIZE_4KB, 1)>>,
      <<MemoryArea(0, PAGE_SIZE_2MB, 2)>>,
      <<>> }

\* boot_info.memory_map_tag(): None when the boot information has no memory
\* map tag
MemoryMapTags == {None} \cup {Some(mmap) : mmap \in BootMemoryMaps}

\* addresses of __end: in the first frame, and at the start of ScenarioA
BootEndSymbols == {1, PAGE_SIZE_2MB \div 2}

\* PageAllocator::new() and the processor before memory::init
InitBoot ==
    \E tag \in MemoryMapTags, end_sym \in BootEndSymbols :
        /\ boot = BootAt(tag, end_sym, "parse", 1)
        /\ heap = HeapAllocator_new
        /\ pages = <<>>
        /\ free_4kb_list = None
        /\ free_2mb_list = None
        /\ kernel_end = 0
        /\ panicked = FALSE
        /\ locked = [m \in Mutexes |-> FALSE]
        /\ rflags_if = TRUE
        /\ ctx = [c \in Contexts |-> IdleCtx]
        /\ lock_order = {}
        /\ outstanding = {}
        /\ freed4 = {}
        /\ carved = <<>>
        /\ misuse = 0
        /\ overlap = FALSE
        /\ available = 0
        /\ call = NoCall
        /\ pending = [size \in PageSize |-> <<>>]

bootRest == <<lockVars, outstanding, freed4, misuse, overlap, call, pending, heap>>

\* memory::init: boot_info.memory_map_tag().expect(..) panics on None
BootParse ==
    /\ boot.pc = "parse"
    /\ IF boot.tag = None
       THEN panicked' = TRUE /\ boot' = [boot EXCEPT !.pc = "abort"]
       ELSE panicked' = FALSE /\ boot' = [boot EXCEPT !.pc = "init_array"]
    /\ UNCHANGED <<pages, free_4kb_list, free_2mb_list, kernel_end, carved, available,
                   bootRest>>

\* PageAllocator::init up to the marking loop: total_pages, the array after
\* the kernel with every entry PageMetadata::new(), final_kernel_end
InitArray ==
    /\ boot.pc = "init_array"
    /\ LET mmap == unwrap(boot.tag) IN
        /\ pages' = [p \in 0 .. total_pages_of(mmap) - 1 |-> PageMetadata_new]
        /\ kernel_end' = final_kernel_end_of(mmap, boot.end_sym)
    /\ boot' = [boot EXCEPT !.pc = "mark", !.i = 1]
    /\ UNCHANGED <<free_4kb_list, free_2mb_list, panicked, carved, available, bootRest>>

\* one turn of the marking loop of init: mark_available for a type-1 entry
MarkEntry ==
    /\ boot.pc = "mark"
    /\ boot.i <= Len(unwrap(boot.tag))
    /\ LET entry == unwrap(boot.tag)[boot.i] IN
        pages' = IF entry.typ = 1
                 THEN mark_available(pages, kernel_end, entry.base_addr, entry.length)
                 ELSE pages
    /\ boot' = [boot EXCEPT !.i = @ + 1]
    /\ UNCHANGED <<free_4kb_list, free_2mb_list, kernel_end, panicked, carved, available,
                   bootRest>>

\* self.build_lists() and the count of free pages; init returns
BuildLists ==
    /\ boot.pc = "mark"
    /\ boot.i > Len(unwrap(boot.tag))
    /\ LET L == build_lists(pages) IN
        /\ pages' = L.pages
        /\ free_4kb_list' = L.head_4kb
        /\ free_2mb_list' = L.head_2mb
        /\ carved' = [sp \in Superpages(L.pages) |-> [split |-> FALSE, got |-> {}]]
        /\ available' = free_frames(L.pages)
    /\ boot' = [boot EXCEPT !.pc = "done"]
    /\ UNCHANGED <<kernel_end, panicked, bootRest>>

\* the kernel goes on after memory::init
AfterBoot == boot.pc = "done"

NextBoot ==
    \/ BootParse
    \/ InitArray
    \/ MarkEntry
    \/ BuildLists
    \/ \E size \in PageSize : AfterBoot /\ AllocatePage(size)
    \/ \E addr \in FreeAddresses, size \in PageSize :
          AfterBoot /\ matching(outstanding, addr, size) # {} /\ FreePage(addr, size)

SpecBoot == InitBoot /\ [][NextBoot]_vars

(***************************************************************************)
(* Mutex<T> and MutexGuard, step by step.                                  *)
(***************************************************************************)
\* the context the processor executes: the handler while one is active
Running == IF ctx["irq"].pc # "idle" THEN "irq" ELSE "kernel"

InMutex(c, stage) == c = Running /\ ~panicked /\ ctx[c].mx = stage

\* (mutant) a plain store in place of the compare-and-swap
compare_exchange_blind(flag) == TRUE

\* locked.compare_exchange(false, true, ..) is Ok
compare_exchange_ok(flag) == flag = FALSE

\* (mutant) a guard that always records interrupts as enabled
guard_of_always_on(enabled) == "on"

\* interrupts_were_enabled of the guard lock / try_lock build
guard_of(enabled) == IF enabled THEN "on" ELSE "off"

\* (mutant) drop ending in an unconditional enable_interrupts()
drop_restore_always(if_now, were_enabled) == TRUE

\* RFLAGS.IF after `if self.interrupts_were_enabled { enable_interrupts() }`
drop_restore(if_now, were_enabled) == IF were_enabled THEN TRUE ELSE if_now

\* (mutant) try_lock's failure branch with an unconditional enable_interrupts()
try_lock_restore_always(if_now, enabled) == TRUE

\* RFLAGS.IF after `if interrupts_enabled { enable_interrupts() }` of try_lock
try_lock_restore(if_now, enabled) == IF enabled THEN TRUE ELSE if_now

\* the context record on entry to lock(), try_lock() and drop of m's guard
\* the call site goes on without calling lock()
start_lock_forgotten(cx, m) == cx

start_lock(cx, m) == [cx EXCEPT !.mx = "lock_read", !.m = m, !.at_call = rflags_if]

start_try_lock(cx, m) ==
    [cx EXCEPT !.mx = "try_read", !.m = m, !.at_call = rflags_if, !.tried = "none"]

start_drop(cx, m) ==
    [cx EXCEPT !.mx = "drop_store", !.m = m,
               !.enabled = (cx.guards[m] = "on"), !.at_call = cx.born[m]]

\* (history) lock_order once c has acquired m: the guards c holds came first
acquired_holding(c, m) ==
    lock_order \cup {<<a, m>> : a \in {h \in Mutexes : ctx[c].guards[h] # "none"}}

\* let interrupts_enabled = are_interrupts_enabled();
LockRead(c) ==
    /\ InMutex(c, "lock_read")
    /\ ctx' = [ctx EXCEPT ![c].enabled = rflags_if, ![c].mx = "lock_cli"]
    /\ UNCHANGED <<locked, rflags_if, allocVars, histVars, lock_order>>

\* disable_interrupts();
LockCli(c) ==
    /\ InMutex(c, "lock_cli")
    /\ rflags_if' = FALSE
    /\ ctx' = [ctx EXCEPT ![c].mx = "lock_cas"]
    /\ UNCHANGED <<locked, allocVars, histVars, lock_order>>

\* the compare_exchange that succeeds: lock() returns the guard
LockCas(c) ==
    /\ InMutex(c, "lock_cas")
    /\ compare_exchange_ok(locked[ctx[c].m])
    /\ locked' = [locked EXCEPT ![ctx[c].m] = TRUE]
    /\ ctx' = [ctx EXCEPT ![c].guards[ctx[c].m] = guard_of(ctx[c].enabled),
                          ![c].born[ctx[c].m] = ctx[c].at_call,
                          ![c].mx = "none"]
    /\ lock_order' = acquired_holding(c, ctx[c].m)
    /\ UNCHANGED <<rflags_if, allocVars, histVars>>

\* a compare_exchange that fails: spin_loop(), and again
LockSpin(c) ==
    /\ InMutex(c, "lock_cas")
    /\ ~compare_exchange_ok(locked[ctx[c].m])
    /\ UNCHANGED vars

TryRead(c) ==
    /\ InMutex(c, "try_read")
    /\ ctx' = [ctx EXCEPT ![c].enabled = rflags_if, ![c].mx = "try_cli"]
    /\ UNCHANGED <<locked, rflags_if, allocVars, histVars, lock_order>>

TryCli(c) ==
    /\ InMutex(c, "try_cli")
    /\ rflags_if' = FALSE
    /\ ctx' = [ctx EXCEPT ![c].mx = "try_cas"]
    /\ UNCHANGED <<locked, allocVars, histVars, lock_order>>

\* the one compare_exchange of try_lock: Some(guard), or on to the else branch
TryCas(c) ==
    /\ InMutex(c, "try_cas")
    /\ IF compare_exchange_ok(locked[ctx[c].m])
       THEN /\ locked' = [locked EXCEPT ![ctx[c].m] = TRUE]
            /\ ctx' = [ctx EXCEPT ![c].guards[ctx[c].m] = guard_of(ctx[c].enabled),
                                  ![c].born[ctx[c].m] = ctx[c].at_call,
                                  ![c].tried = "some",
                                  ![c].mx = "none"]
            /\ lock_order' = acquired_holding(c, ctx[c].m)
       ELSE /\ locked' = locked
            /\ ctx' = [ctx EXCEPT ![c].mx = "try_fail"]
            /\ lock_order' = lock_order
    /\ UNCHANGED <<rflags_if, allocVars, histVars>>

\* the else branch of try_lock: restore interrupts, return None
TryFail(c) ==
    /\ InMutex(c, "try_fail")
    /\ rflags_if' = try_lock_restore(rflags_if, ctx[c].enabled)
    /\ ctx' = [ctx EXCEPT ![c].tried = "fail", ![c].mx = "none"]
    /\ UNCHANGED <<locked, allocVars, histVars, lock_order>>

\* MutexGuard::drop: self.mutex.locked.store(false, Release)
DropStore(c) ==
    /\ InMutex(c, "drop_store")
    /\ locked' = [locked EXCEPT ![ctx[c].m] = FALSE]
    /\ ctx' = [ctx EXCEPT ![c].guards[ctx[c].m] = "none", ![c].mx = "drop_sti"]
    /\ UNCHANGED <<rflags_if, allocVars, histVars, lock_order>>

\* MutexGuard::drop: if self.interrupts_were_enabled { enable_interrupts() }
DropSti(c) ==
    /\ InMutex(c, "drop_sti")
    /\ rflags_if' = drop_restore(rflags_if, ctx[c].enabled)
    /\ ctx' = [ctx EXCEPT ![c].mx = "none"]
    /\ UNCHANGED <<locked, allocVars, histVars, lock_order>>

MutexStep(c) ==
    \/ LockRead(c) \/ LockCli(c) \/ LockCas(c) \/ LockSpin(c)
    \/ TryRead(c) \/ TryCli(c) \/ TryCas(c) \/ TryFail(c)
    \/ DropStore(c) \/ DropSti(c)

(***************************************************************************)
(* SpecMutex: the Mutex API under any caller. Kernel code and one          *)
(* interrupt handler lock, try_lock and drop in any order; the handler is  *)
(* entered through an interrupt gate whenever RFLAGS.IF is set.            *)
(***************************************************************************)
\* the mutexes the callers of SpecMutex use: two, so that guards nest and are
\* dropped in either order
ClientMutexes == {"page_array", "free_4kb_list"}

\* c is between two Mutex calls
Between(c) ==
    /\ c = Running /\ ~panicked /\ ctx[c].mx = "none"
    /\ ctx[c].pc = IF c = "irq" THEN "handler" ELSE "idle"

ClientLock(c, m) ==
    /\ Between(c)
    /\ ctx[c].guards[m] = "none"
    /\ ctx' = [ctx EXCEPT ![c] = start_lock(@, m)]
    /\ UNCHANGED <<locked, rflags_if, allocVars, histVars, lock_order>>

ClientTryLock(c, m) ==
    /\ Between(c)
    /\ ctx' = [ctx EXCEPT ![c] = start_try_lock(@, m)]
    /\ UNCHANGED <<locked, rflags_if, allocVars, histVars, lock_order>>

ClientDrop(c, m) ==
    /\ Between(c)
    /\ ctx[c].guards[m] # "none"
    /\ ctx' = [ctx EXCEPT ![c] = start_drop(@, m)]
    /\ UNCHANGED <<locked, rflags_if, allocVars, histVars, lock_order>>

\* an interrupt is delivered through an interrupt gate: IF is cleared
HandlerEnter ==
    /\ rflags_if /\ ~panicked
    /\ ctx["irq"].pc = "idle"
    /\ rflags_if' = FALSE
    /\ ctx' = [ctx EXCEPT !["irq"].pc = "handler"]
    /\ UNCHANGED <<locked, allocVars, histVars, lock_order>>

\* iret: the interrupted code continues, with the RFLAGS it was interrupted with
HandlerReturn ==
    /\ Between("irq")
    /\ \A m \in Mutexes : ctx["irq"].guards[m] = "none"
    /\ rflags_if' = TRUE
    /\ ctx' = [ctx EXCEPT !["irq"] = IdleCtx]
    /\ UNCHANGED <<locked, allocVars, histVars, lock_order>>

InitMutex == Boot(SingleMap, SingleEndSymbol)

NextMutex ==
    \/ \E c \in Contexts : MutexStep(c)
    \/ \E c \in Contexts, m \in ClientMutexes : ClientLock(c, m)
    \/ \E c \in Contexts, m \in ClientMutexes : ClientTryLock(c, m)
    \/ \E c \in Contexts, m \in ClientMutexes : ClientDrop(c, m)
    \/ HandlerEnter
    \/ HandlerReturn

SpecMutex == InitMutex /\ [][NextMutex]_vars

(***************************************************************************)
(* SpecIrq: allocate_page and free_page lock by lock, on one processor.    *)
(* Kernel code calls the allocator with interrupts enabled; an interrupt   *)
(* is delivered whenever RFLAGS.IF is set, and its handler calls the       *)
(* allocator too. Every free_page names an outstanding allocation.         *)
(***************************************************************************)
histRest == <<freed4, carved, misuse, overlap, available, call, pending, boot, heap>>

\* c is at position p of the allocator's code, in no Mutex call
AtPc(c, p) == c = Running /\ ~panicked /\ ctx[c].mx = "none" /\ ctx[c].pc = p

\* c moves on as cx, leaving the allocator's data as A
Go(c, cx, A) ==
    /\ ctx' = [ctx EXCEPT ![c] = cx]
    /\ install(A)
    /\ UNCHANGED <<kernel_end, locked, rflags_if, histVars, lock_order>>

\* where a call made by c returns to
Caller(c) == IF c = "irq" THEN "handler" ELSE "idle"

CallAllocatePage(c, size) ==
    /\ Between(c)
    /\ Go(c, [ctx[c] EXCEPT !.op = "allocate_page", !.size = size,
                            !.pc = IF size = "Size4KB" THEN "alloc_4kb" ELSE "alloc_2mb"],
          CurrentState)

\* free_page(addr, size) of an outstanding page: pfn = addr / PAGE_SIZE_4KB
CallFreePage(c, addr, size) ==
    /\ Between(c)
    /\ <<addr, size>> \in outstanding
    /\ ctx' = [ctx EXCEPT ![c] =
                 [@ EXCEPT !.op = "free_page", !.size = size, !.addr = addr,
                           !.pfn = addr \div PAGE_SIZE_4KB,
                           !.pc = IF size = "Size4KB" THEN "free_4kb" ELSE "free_2mb"]]
    /\ outstanding' = outstanding \ {<<addr, size>>}
    /\ UNCHANGED <<allocVars, locked, rflags_if, histRest, lock_order>>

\* the call returns to its caller
Return(c) ==
    /\ AtPc(c, "ret")
    /\ ctx' = [ctx EXCEPT ![c] = [IdleCtx EXCEPT !.pc = Caller(c)]]
    /\ outstanding' = IF ctx[c].op = "allocate_page" /\ ctx[c].ret # None
                      THEN outstanding \cup {<<unwrap(ctx[c].ret), ctx[c].size>>}
                      ELSE outstanding
    /\ UNCHANGED <<allocVars, locked, rflags_if, histRest, lock_order>>

\* alloc_4kb: let mut head = self.free_4kb_list.lock();
A4Enter(c) ==
    /\ AtPc(c, "alloc_4kb")
    /\ Go(c, start_lock([ctx[c] EXCEPT !.pc = "a4_head"], "free_4kb_list"), CurrentState)

\* if let Some(pfn) = *head { let page_guard = self.page_array.lock();
\* else: drop(head)
A4Head(c) ==
    /\ AtPc(c, "a4_head")
    /\ Go(c, IF free_4kb_list # None
             THEN start_lock([ctx[c] EXCEPT !.pc = "a4_pop",
                                            !.pfn = unwrap(free_4kb_list)], "page_array")
             ELSE start_drop([ctx[c] EXCEPT !.pc = "a4_has2mb"], "free_4kb_list"),
          CurrentState)

\* "Remove from list", mark Allocated, drop(head)
A4Pop(c) ==
    /\ AtPc(c, "a4_pop")
    /\ Go(c, start_drop([ctx[c] EXCEPT !.pc = "a4_counter"], "free_4kb_list"),
          alloc_4kb_pop(CurrentState, ctx[c].pfn))

\* "Update superpage counter", return Some(pfn * PAGE_SIZE_4KB): page_guard
\* goes out of scope
A4Counter(c) ==
    /\ AtPc(c, "a4_counter")
    /\ Go(c, start_drop([ctx[c] EXCEPT !.pc = "ret",
                                       !.ret = Some(ctx[c].pfn * PAGE_SIZE_4KB)],
                        "page_array"),
          alloc_4kb_counter(CurrentState, ctx[c].pfn))

\* let has_2mb = self.free_2mb_list.lock()...
A4Has2mb(c) ==
    /\ AtPc(c, "a4_has2mb")
    /\ Go(c, start_lock([ctx[c] EXCEPT !.pc = "a4_has2mb_read"], "free_2mb_list"),
          CurrentState)

\* ....is_some(); the temporary guard is dropped; return None or split_2mb()
A4Has2mbRead(c) ==
    /\ AtPc(c, "a4_has2mb_read")
    /\ Go(c, start_drop([ctx[c] EXCEPT !.pc = IF free_2mb_list # None
                                             THEN "split_2mb" ELSE "ret",
                                       !.ret = None], "free_2mb_list"),
          CurrentState)

\* split_2mb: let mut head = self.free_2mb_list.lock();
S2Enter(c) ==
    /\ AtPc(c, "split_2mb")
    /\ Go(c, start_lock([ctx[c] EXCEPT !.pc = "s_head"], "free_2mb_list"), CurrentState)

\* let pfn = (*head)?; let page_guard = self.page_array.lock();
\* on None split_2mb()? makes alloc_4kb return None
S2Head(c) ==
    /\ AtPc(c, "s_head")
    /\ Go(c, IF free_2mb_list # None
             THEN start_lock([ctx[c] EXCEPT !.pc = "s_unlink",
                                            !.pfn = unwrap(free_2mb_list)], "page_array")
             ELSE start_drop([ctx[c] EXCEPT !.pc = "ret", !.ret = None], "free_2mb_list"),
          CurrentState)

\* "Remove from 2MB list", drop(head)
S2Unlink(c) ==
    /\ AtPc(c, "s_unlink")
    /\ Go(c, start_drop([ctx[c] EXCEPT !.pc = "s_lock4", !.split = TRUE], "free_2mb_list"),
          split_2mb_unlink(CurrentState, ctx[c].pfn))

\* let mut head_4kb = self.free_4kb_list.lock();
S2Lock4(c) ==
    /\ AtPc(c, "s_lock4")
    /\ Go(c, start_lock([ctx[c] EXCEPT !.pc = "s_push"], "free_4kb_list"), CurrentState)

\* counter = 0 and the push loop; Some(()): head_4kb goes out of scope first
S2Push(c) ==
    /\ AtPc(c, "s_push")
    /\ Go(c, start_drop([ctx[c] EXCEPT !.pc = "s_drop_pa"], "free_4kb_list"),
          split_2mb_push(CurrentState, ctx[c].pfn))

\* page_guard goes out of scope; alloc_4kb goes on with self.alloc_4kb()
S2DropPa(c) ==
    /\ AtPc(c, "s_drop_pa")
    /\ Go(c, start_drop([ctx[c] EXCEPT !.pc = "alloc_4kb"], "page_array"), CurrentState)

\* alloc_2mb: let mut head = self.free_2mb_list.lock();
A2Enter(c) ==
    /\ AtPc(c, "alloc_2mb")
    /\ Go(c, start_lock([ctx[c] EXCEPT !.pc = "a2_head"], "free_2mb_list"), CurrentState)

\* let pfn = (*head)?; let page_guard = self.page_array.lock();
A2Head(c) ==
    /\ AtPc(c, "a2_head")
    /\ Go(c, IF free_2mb_list # None
             THEN start_lock([ctx[c] EXCEPT !.pc = "a2_pop",
                                            !.pfn = unwrap(free_2mb_list)], "page_array")
             ELSE start_drop([ctx[c] EXCEPT !.pc = "ret", !.ret = None], "free_2mb_list"),
          CurrentState)

\* "Remove from list", mark Allocated, Some(pfn * PAGE_SIZE_4KB): page_guard
\* goes out of scope first
A2Pop(c) ==
    /\ AtPc(c, "a2_pop")
    /\ Go(c, start_drop([ctx[c] EXCEPT !.pc = "a2_drop_head",
                                       !.ret = Some(ctx[c].pfn * PAGE_SIZE_4KB)],
                        "page_array"),
          alloc_2mb_pop(CurrentState, ctx[c].pfn))

\* head goes out of scope
A2DropHead(c) ==
    /\ AtPc(c, "a2_drop_head")
    /\ Go(c, start_drop([ctx[c] EXCEPT !.pc = "ret"], "free_2mb_list"), CurrentState)

\* free_4kb: let page_guard = self.page_array.lock();
F4Enter(c) ==
    /\ AtPc(c, "free_4kb")
    /\ Go(c, start_lock([ctx[c] EXCEPT !.pc = "f4_check"], "page_array"), CurrentState)

\* the bounds check and the already-free check (each returns, dropping
\* page_guard); mark, counter, can_merge; let mut head = free_4kb_list.lock()
F4Check(c) ==
    /\ AtPc(c, "f4_check")
    /\ LET pfn == ctx[c].pfn
           skip == pfn >= pages_len(pages) \/ pages[pfn].state = "Free4KB"
           marked == free_4kb_mark(CurrentState, pfn)
       IN IF skip
          THEN Go(c, start_drop([ctx[c] EXCEPT !.pc = "ret"], "page_array"), CurrentState)
          ELSE Go(c, start_lock([ctx[c] EXCEPT !.pc = "f4_push",
                                               !.can_merge = free_4kb_can_merge(marked, pfn)],
                                "free_4kb_list"),
                  marked)

\* "Add to 4KB list", drop(head)
F4Push(c) ==
    /\ AtPc(c, "f4_push")
    /\ Go(c, start_drop([ctx[c] EXCEPT !.pc = "f4_drop_pa"], "free_4kb_list"),
          free_4kb_push(CurrentState, ctx[c].pfn))

\* drop(page_guard); if can_merge { self.try_merge(pfn) }
F4DropPa(c) ==
    /\ AtPc(c, "f4_drop_pa")
    /\ Go(c, start_drop([ctx[c] EXCEPT !.pc = IF ctx[c].can_merge
                                             THEN "try_merge" ELSE "ret"],
                        "page_array"),
          CurrentState)

\* try_merge: let page_guard = self.page_array.lock();
MEnter(c) ==
    /\ AtPc(c, "try_merge")
    /\ Go(c, start_lock([ctx[c] EXCEPT !.pc = "m_check"], "page_array"), CurrentState)

\* the counter and state checks (each returns, dropping page_guard);
\* let mut head_guard = self.free_4kb_list.lock();
MCheck(c) ==
    /\ AtPc(c, "m_check")
    /\ Go(c, IF try_merge_checks(CurrentState, sp_head_of(ctx[c].pfn))
             THEN start_lock([ctx[c] EXCEPT !.pc = "m_unlink"], "free_4kb_list")
             ELSE start_drop([ctx[c] EXCEPT !.pc = "ret"], "page_array"),
          CurrentState)

\* "Remove all from 4KB list", drop(head_guard)
MUnlink(c) ==
    /\ AtPc(c, "m_unlink")
    /\ Go(c, start_drop([ctx[c] EXCEPT !.pc = "m_mark"], "free_4kb_list"),
          try_merge_unlink(CurrentState, sp_head_of(ctx[c].pfn), 0))

\* mark the block Free2MB; let mut head = self.free_2mb_list.lock();
MMark(c) ==
    /\ AtPc(c, "m_mark")
    /\ Go(c, start_lock([ctx[c] EXCEPT !.pc = "m_push"], "free_2mb_list"),
          try_merge_mark(CurrentState, sp_head_of(ctx[c].pfn)))

\* "Add as 2MB page"; head goes out of scope first
MPush(c) ==
    /\ AtPc(c, "m_push")
    /\ Go(c, start_drop([ctx[c] EXCEPT !.pc = "m_drop_pa"], "free_2mb_list"),
          try_merge_push(CurrentState, sp_head_of(ctx[c].pfn)))

\* page_guard goes out of scope
MDropPa(c) ==
    /\ AtPc(c, "m_drop_pa")
    /\ Go(c, start_drop([ctx[c] EXCEPT !.pc = "ret"], "page_array"), CurrentState)

\* free_2mb: let page_guard = self.page_array.lock();
F2Enter(c) ==
    /\ AtPc(c, "free_2mb")
    /\ Go(c, start_lock([ctx[c] EXCEPT !.pc = "f2_check"], "page_array"), CurrentState)

\* pages[aligned_pfn] (a panic when out of bounds); the already-free check
\* (returns, dropping page_guard); mark; let mut head = free_2mb_list.lock()
F2Check(c) ==
    /\ AtPc(c, "f2_check")
    /\ LET aligned_pfn == sp_head_of(ctx[c].pfn) IN
       IF aligned_pfn >= pages_len(pages)
       THEN Go(c, ctx[c], [CurrentState EXCEPT !.panic = TRUE])
       ELSE IF pages[aligned_pfn].state = "Free2MB"
       THEN Go(c, start_drop([ctx[c] EXCEPT !.pc = "ret"], "page_array"), CurrentState)
       ELSE Go(c, start_lock([ctx[c] EXCEPT !.pc = "f2_push"], "free_2mb_list"),
               free_2mb_mark(CurrentState, aligned_pfn))

\* push the aligned head; head goes out of scope first
F2Push(c) ==
    /\ AtPc(c, "f2_push")
    /\ Go(c, start_drop([ctx[c] EXCEPT !.pc = "f2_drop_pa"], "free_2mb_list"),
          free_2mb_push(CurrentState, sp_head_of(ctx[c].pfn)))

\* page_guard goes out of scope
F2DropPa(c) ==
    /\ AtPc(c, "f2_drop_pa")
    /\ Go(c, start_drop([ctx[c] EXCEPT !.pc = "ret"], "page_array"), CurrentState)

\* the steps of lock() and of MutexGuard::drop
LockStep(c) ==
    \/ LockRead(c) \/ LockCli(c) \/ LockCas(c) \/ LockSpin(c)
    \/ DropStore(c) \/ DropSti(c)

AllocatorStep(c) ==
    \/ A4Enter(c) \/ A4Head(c) \/ A4Pop(c) \/ A4Counter(c)
    \/ A4Has2mb(c) \/ A4Has2mbRead(c)
    \/ S2Enter(c) \/ S2Head(c) \/ S2Unlink(c) \/ S2Lock4(c) \/ S2Push(c) \/ S2DropPa(c)
    \/ A2Enter(c) \/ A2Head(c) \/ A2Pop(c) \/ A2DropHead(c)
    \/ F4Enter(c) \/ F4Check(c) \/ F4Push(c) \/ F4DropPa(c)
    \/ MEnter(c) \/ MCheck(c) \/ MUnlink(c) \/ MMark(c) \/ MPush(c) \/ MDropPa(c)
    \/ F2Enter(c) \/ F2Check(c) \/ F2Push(c) \/ F2DropPa(c)
    \/ Return(c)

\* the addresses allocate_page can return
PageAddresses == {pfn * PAGE_SIZE_4KB : pfn \in DOMAIN pages}

InitIrq == Boot(SingleMap, SingleEndSymbol)

NextIrq ==
    \/ \E c \in Contexts : LockStep(c)
    \/ \E c \in Contexts : AllocatorStep(c)
    \/ \E c \in Contexts, size \in PageSize : CallAllocatePage(c, size)
    \/ \E c \in Contexts, addr \in PageAddresses, size \in PageSize :
          CallFreePage(c, addr, size)
    \/ HandlerEnter
    \/ HandlerReturn

SpecIrq == InitIrq /\ [][NextIrq]_vars

(***************************************************************************)
(* SpecHeap: the HeapAllocator over the page allocator, on one processor   *)
(* with an interrupt handler.  A heap call runs lock section by lock       *)
(* section; allocate_page and free_page run as whole calls.  A region is   *)
(* [addr, size], the free list a sequence of regions, head first.          *)
(***************************************************************************)
\* size_of::<ListNode>(): a usize and an Option<&'static mut ListNode>
SIZEOF_ListNode == 16

\* align_of::<ListNode>()
ALIGNOF_ListNode == 8

\* const INITIAL_HEAP_PAGES: usize (16 in the source; the model's boot has
\* three free frames)
INITIAL_HEAP_PAGES == 1

\* "if pages_needed <= 8"
MAX_PAGES_NEEDED == 8

Region(addr, size) == [addr |-> addr, size |-> size]

\* Layout::from_size_align
Layout(size, align) == [size |-> size, align |-> align]

\* the layouts alloc is called with: a frame less a ListNode, a frame less a
\* few bytes, two frames
HeapLayouts ==
    { Layout(PAGE_SIZE_4KB - SIZEOF_ListNode, ALIGNOF_ListNode),
      Layout(PAGE_SIZE_4KB - 15, 1),
      Layout(2 * PAGE_SIZE_4KB, ALIGNOF_ListNode) }

\* ListNode::end_addr
end_addr(region) == region.addr + region.size

\* align_to(align_of::<ListNode>()), pad_to_align(), size at least a ListNode
size_align(layout) ==
    LET align == Max(layout.align, ALIGNOF_ListNode) IN
    [size |-> Max(align_up(layout.size, align), SIZEOF_ListNode), align |-> align]

\* (mutant) alloc_from_region that accepts an excess too small for a ListNode
alloc_from_region_any_excess(region, size, align) ==
    LET alloc_start == align_up(region.addr, align)
        alloc_end == alloc_start + size
    IN  IF alloc_end > end_addr(region) THEN None ELSE Some(alloc_start)

\* checked_add cannot overflow on the addresses of the model
alloc_from_region(region, size, align) ==
    LET alloc_start == align_up(region.addr, align)
        alloc_end == alloc_start + size
        excess_size == end_addr(region) - alloc_end
    IN  IF alloc_end > end_addr(region) THEN None
        ELSE IF excess_size > 0 /\ excess_size < SIZEOF_ListNode THEN None
        ELSE Some(alloc_start)

\* the first region of the list alloc_from_region accepts is unlinked;
\* ret is Some([alloc_start, region_end]), list the list that stays
find_region(list, size, align) ==
    LET fit == {i \in DOMAIN list : alloc_from_region(list[i], size, align) # None} IN
    IF fit = {} THEN [list |-> list, ret |-> None, region |-> None]
    ELSE LET i == CHOOSE j \in fit : \A k \in fit : j <= k IN
         [list |-> SubSeq(list, 1, i - 1) \o SubSeq(list, i + 1, Len(list)),
          ret |-> Some([alloc_start |-> unwrap(alloc_from_region(list[i], size, align)),
                        region_end |-> end_addr(list[i])]),
          region |-> Some(list[i])]

\* (size + 4095) / 4096
pages_needed(size) == (size + PAGE_SIZE_4KB - 1) \div PAGE_SIZE_4KB

\* HeapAllocator::init with nothing interrupting it: n frames are asked for,
\* each one obtained is pushed in front of the list
RECURSIVE heap_init(_, _, _)
heap_init(A, list, n) ==
    IF n = 0 THEN [st |-> A, list |-> list]
    ELSE LET r == allocate_page(A, "Size4KB") IN
         IF r.ret = None THEN heap_init(r.st, list, n - 1)
         ELSE heap_init(r.st, <<Region(unwrap(r.ret), PAGE_SIZE_4KB)>> \o list, n - 1)

\* "for i in 1..pages_needed" of alloc, from iteration i on
RECURSIVE grow_loop(_, _, _, _)
grow_loop(A, i, needed, last_page) ==
    IF i >= needed THEN [st |-> A, last_page |-> last_page, all_contiguous |-> TRUE]
    ELSE LET r == allocate_page(A, "Size4KB") IN
         IF r.ret = None
           THEN [st |-> r.st, last_page |-> last_page, all_contiguous |-> FALSE]
         ELSE IF unwrap(r.ret) # last_page + PAGE_SIZE_4KB
           THEN [st |-> free_page(r.st, unwrap(r.ret), "Size4KB"),
                 last_page |-> last_page, all_contiguous |-> FALSE]
         ELSE grow_loop(r.st, i + 1, needed, unwrap(r.ret))

\* the regions alloc passes to add_free_region after the loop, in order
grown_regions(first_page, g, needed) ==
    IF g.all_contiguous /\ g.last_page = first_page + (needed - 1) * PAGE_SIZE_4KB
      THEN <<Region(first_page, needed * PAGE_SIZE_4KB)>>
    ELSE [k \in 1 .. (g.last_page - first_page) \div PAGE_SIZE_4KB + 1 |->
             Region(first_page + (k - 1) * PAGE_SIZE_4KB, PAGE_SIZE_4KB)]

\* frame pfn of A is free: in the 4KB list's state, or part of a free 2MB block
is_free_frame(A, pfn) ==
    /\ pfn \in DOMAIN A.pages
    /\ \/ A.pages[pfn].state = "Free4KB"
       \/ /\ sp_head_of(pfn) \in DOMAIN A.pages
          /\ A.pages[sp_head_of(pfn)].state = "Free2MB"

\* A holds n free frames at consecutive addresses
has_contiguous(A, n) ==
    \E start \in DOMAIN A.pages : \A k \in 0 .. n - 1 : is_free_frame(A, start + k)

heapRest ==
    <<kernel_end, lockVars, outstanding, freed4, carved, misuse, overlap,
      available, call, pending, boot>>

\* ALLOCATOR.init() at the end of memory::init
HeapInit ==
    /\ ~panicked /\ ~heap.inited
    /\ LET h == heap_init(CurrentState, heap.head, INITIAL_HEAP_PAGES) IN
        /\ install(h.st)
        /\ heap' = [heap EXCEPT !.inited = TRUE, !.head = h.list,
                                !.given = {h.list[i] : i \in DOMAIN h.list}]
    /\ UNCHANGED heapRest

\* alloc is entered
HeapAlloc(c, layout) ==
    /\ Between(c) /\ heap.inited /\ heap.cx[c].pc = "idle"
    /\ heap' = [heap EXCEPT !.cx[c] = [HeapIdle EXCEPT !.pc = "find", !.layout = layout,
                                                     !.after = "ret"]]
    /\ UNCHANGED <<allocVars, heapRest>>

\* find_region, and what alloc does with a region found
HeapFind(c) ==
    LET x == heap.cx[c]
        sa == size_align(x.layout)
        f == find_region(heap.head, sa.size, sa.align)
    IN  /\ Between(c) /\ x.pc = "find"
        /\ IF f.ret = None
             THEN heap' = [heap EXCEPT !.cx[c].pc = "grow"]
           ELSE LET alloc_start == unwrap(f.ret).alloc_start
                    alloc_end == alloc_start + sa.size
                    excess_size == unwrap(f.ret).region_end - alloc_end
                IN  heap' = [heap EXCEPT
                        !.head = f.list,
                        !.given = @ \ {unwrap(f.region)},
                        !.cx[c].ret = Some(alloc_start),
                        !.cx[c].todo = IF excess_size > 0
                                         THEN <<Region(alloc_end, excess_size)>> ELSE <<>>,
                        !.cx[c].after = "ret",
                        !.cx[c].pc = IF excess_size > 0 THEN "take" ELSE "ret"]
        /\ UNCHANGED <<allocVars, heapRest>>

\* no region fits: frames are taken from the page allocator
HeapGrow(c) ==
    LET x == heap.cx[c]
        needed == pages_needed(size_align(x.layout).size)
        r == allocate_page(CurrentState, "Size4KB")
    IN  /\ Between(c) /\ x.pc = "grow"
        /\ IF needed > MAX_PAGES_NEEDED
             THEN /\ heap' = [heap EXCEPT !.cx[c].pc = "ret", !.cx[c].ret = None]
                  /\ UNCHANGED allocVars
           ELSE IF r.ret = None
             THEN /\ heap' = [heap EXCEPT
                        !.cx[c].pc = "ret", !.cx[c].ret = None,
                        !.cx[c].contiguous = @ \/ has_contiguous(CurrentState, needed)]
                  /\ install(r.st)
                  /\ UNCHANGED kernel_end
           ELSE LET first_page == unwrap(r.ret)
                    g == grow_loop(r.st, 1, needed, first_page)
                    regions == grown_regions(first_page, g, needed)
                IN  /\ heap' = [heap EXCEPT
                          !.cx[c].pc = "take",
                          !.cx[c].todo = regions,
                          !.cx[c].after = "find",
                          !.cx[c].drawn = @ + (g.last_page - first_page) \div PAGE_SIZE_4KB + 1,
                          !.cx[c].contiguous = @ \/ has_contiguous(CurrentState, needed)]
                    /\ install(g.st)
                    /\ UNCHANGED kernel_end
        /\ UNCHANGED heapRest

\* add_free_region up to the end of its first statement with the lock: the
\* asserts, and node.next = self.head.lock().take()
HeapTake(c) ==
    LET x == heap.cx[c]
        region == Head(x.todo)
    IN  /\ Between(c) /\ x.pc = "take"
        /\ IF region.size >= SIZEOF_ListNode /\ region.addr % ALIGNOF_ListNode = 0
             THEN /\ heap' = [heap EXCEPT
                        !.head = None,
                        !.given = @ \cup {region},
                        !.cx[c].node = Some(region),
                        !.cx[c].next = heap.head,
                        !.cx[c].pc = "store"]
                  /\ UNCHANGED allocVars
           ELSE /\ panicked' = TRUE
                /\ UNCHANGED <<heap, pages, free_4kb_list, free_2mb_list, kernel_end>>
        /\ UNCHANGED heapRest

\* the rest of add_free_region: the node is written to the region, and
\* *self.head.lock() = Some(node); then what follows the call
HeapStore(c) ==
    LET x == heap.cx[c]
        rest == Tail(x.todo)
    IN  /\ Between(c) /\ x.pc = "store"
        /\ heap' = [heap EXCEPT
              !.head = x.node \o x.next,
              !.cx[c] = IF rest = <<>> /\ x.after = "idle" THEN HeapIdle
                        ELSE [x EXCEPT !.node = None, !.next = None, !.todo = rest,
                                       !.pc = IF rest = <<>> THEN x.after ELSE "take"]]
        /\ UNCHANGED <<allocVars, heapRest>>

\* alloc returns
HeapReturn(c) ==
    LET x == heap.cx[c] IN
    /\ Between(c) /\ x.pc = "ret"
    /\ heap' = [heap EXCEPT
          !.cx[c] = HeapIdle,
          !.held = IF x.ret = None THEN @ ELSE @ \cup {<<unwrap(x.ret), x.layout>>}]
    /\ UNCHANGED <<allocVars, heapRest>>

\* dealloc of a block alloc returned, with the layout it was allocated with
HeapDealloc(c, block) ==
    /\ Between(c) /\ heap.inited /\ heap.cx[c].pc = "idle"
    /\ block \in heap.held
    /\ heap' = [heap EXCEPT
          !.held = @ \ {block},
          !.cx[c] = [HeapIdle EXCEPT
                        !.pc = "take", !.layout = block[2], !.after = "idle",
                        !.todo = <<Region(block[1], size_align(block[2]).size)>>]]
    /\ UNCHANGED <<allocVars, heapRest>>

HeapStep(c) ==
    \/ HeapFind(c) \/ HeapGrow(c) \/ HeapTake(c) \/ HeapStore(c) \/ HeapReturn(c)

\* the blocks dealloc can be called with
HeapBlocks ==
    {<<pfn * PAGE_SIZE_4KB, layout>> : pfn \in DOMAIN pages, layout \in HeapLayouts}

\* the boot of SpecHeap: a free 4KB frame below one free superpage
HeapMap == { <<MemoryArea(0, 3 * PAGE_SIZE_2MB, 1)>> }

InitHeap == Boot(HeapMap, SingleEndSymbol)

NextHeap ==
    \/ HeapInit
    \/ \E c \in Contexts, layout \in HeapLayouts : HeapAlloc(c, layout)
    \/ \E c \in Contexts, block \in HeapBlocks : HeapDealloc(c, block)
    \/ \E c \in Contexts : HeapStep(c)
    \/ heap.inited /\ HandlerEnter
    \/ heap.cx["irq"].pc = "idle" /\ HandlerReturn

SpecHeap == InitHeap /\ [][NextHeap]_vars

(***************************************************************************)
(* Properties.                                                             *)
(***************************************************************************)

\* C1 (no double-issue): when every free_page names an outstanding
\* allocation, allocate_page never returns a page whose bytes [a, a + size)
\* meet those of a page returned earlier and not freed since.
C1_NoDoubleIssue == ~overlap

\* pages of both sizes are outstanding while allocate_page returns one more,
\* after some page went back
C1_Witness ==
    /\ call.op = "allocate_page" /\ call.ret # None
    /\ \E o \in outstanding : o[2] = "Size2MB"
    /\ \E o \in outstanding : o[2] = "Size4KB" /\ o[1] # unwrap(call.ret)
    /\ freed4 # {}

\* C2 (conservation): between calls, Free4KB frames + 512 x Free2MB heads +
\* the frames handed out (1 per 4KB page, 512 per 2MB page) is the number of
\* frames init made available.
C2_Conservation ==
    free_frames(pages) + allocated_frames(outstanding) = available

\* a split block with some of its frames handed out, next to a 2MB allocation
C2_Witness ==
    /\ \E o \in outstanding : o[2] = "Size2MB"
    /\ \E o \in outstanding : o[2] = "Size4KB"
    /\ \E p \in DOMAIN pages : pages[p].state = "Free4KB"
    /\ \E sp \in DOMAIN carved : carved[sp].split

\* the result of the last call is aligned to the size asked for
ResultAligned ==
    (call.op = "allocate_page" /\ call.ret # None)
        => unwrap(call.ret) % bytes_of(call.size) = 0

\* C3 as stated (alignment): allocate_page(Size2MB) returns multiples of the
\* 2MB page size and allocate_page(Size4KB) multiples of 4096 after any
\* sequence of calls; checked here over the sequences whose free_page calls
\* each name an outstanding allocation or repeat a 4KB free (the double free
\* of C5), which are among the sequences the claim speaks of.
C3_AlignedAlways == ~call.stray => ResultAligned

\* what holds of C3: the results are aligned after every sequence of calls in
\* which each free_page names an address inside an outstanding allocation of
\* the same size (for Size2MB the address need not be aligned).
C3_AlignedUnderContract == (misuse = 0) => ResultAligned

\* a block that was split, handed out frame by frame and merged again is
\* returned as a 2MB page
C3_Witness ==
    /\ misuse = 0
    /\ call.op = "allocate_page" /\ call.size = "Size2MB" /\ call.ret # None
    /\ LET sp == unwrap(call.ret) \div PAGE_SIZE_4KB
       IN sp \in DOMAIN carved /\ carved[sp].got = superpage_frames(sp)

\* C4 (split/merge round trip): once a block split by allocate_page(Size4KB)
\* has had all its frames allocated and every one of them is freed again,
\* its head is Free2MB and on the 2MB list, where allocate_page(Size2MB)
\* finds it.
C4_RoundTrip ==
    \A sp \in DOMAIN carved :
        ( /\ carved[sp].split
          /\ carved[sp].got = superpage_frames(sp)
          /\ \A o \in outstanding : o[1] \div PAGE_SIZE_4KB \notin superpage_frames(sp) )
        => /\ pages[sp].state = "Free2MB"
           /\ sp \in list_frames(pages, free_2mb_list)

\* the last frame of a split block has just been freed
C4_Witness ==
    /\ call.op = "free_page" /\ call.size = "Size4KB"
    /\ \E sp \in DOMAIN carved :
          /\ carved[sp].split
          /\ carved[sp].got = superpage_frames(sp)
          /\ \A o \in outstanding : o[1] \div PAGE_SIZE_4KB \notin superpage_frames(sp)
          /\ free_2mb_list = Some(sp)

\* C5 (double-free idempotence): free_page(a, Size4KB) on an address already
\* freed, with no allocation of a in between, changes no list, no frame and
\* no counter, also when the first free merged a's superpage.
C5_DoubleFreeNoop ==
    [][(call'.op = "free_page" /\ call'.refree)
          => UNCHANGED <<pages, free_4kb_list, free_2mb_list>>]_vars

\* c takes the step that leaves stage `from` of its Mutex call for stage `to`
MutexMove(c, from, to) == ctx[c].mx = from /\ ctx'[c].mx = to

\* C8 (guard release): dropping a guard first clears the lock flag, leaving
\* RFLAGS.IF alone, and then sets RFLAGS.IF if and only if it was set when
\* the lock() that produced this guard was called; a guard obtained with
\* interrupts disabled leaves RFLAGS.IF as it is.
C8_GuardRestores ==
    [][\A c \in Contexts :
          /\ MutexMove(c, "drop_store", "drop_sti")
                => (~locked'[ctx[c].m] /\ rflags_if' = rflags_if)
          /\ MutexMove(c, "drop_sti", "none")
                => /\ ~locked[ctx[c].m]
                   /\ locked' = locked
                   /\ rflags_if' = (IF ctx[c].at_call THEN TRUE ELSE rflags_if)]_vars

\* the handler has cleared the flag of a guard it obtained with interrupts
\* disabled, while the interrupted code holds a guard of its own
C8_Witness ==
    /\ ctx["irq"].mx = "drop_sti" /\ ~ctx["irq"].at_call
    /\ \E m \in Mutexes : ctx["kernel"].guards[m] # "none"

\* C9 (mutual exclusion): a Mutex has at most one guard and is locked while it
\* has one; lock() attempts the compare-and-swap with interrupts disabled and
\* returns in the step in which it turns the flag from unlocked to locked;
\* the flag turns back only in the drop of that guard.
C9_MutualExclusion ==
    /\ [](\A m \in Mutexes :
            /\ Cardinality({c \in Contexts : ctx[c].guards[m] # "none"}) <= 1
            /\ (\E c \in Contexts : ctx[c].guards[m] # "none") => locked[m])
    /\ [](\A c \in Contexts : ctx[c].mx = "lock_cas" => ~rflags_if)
    /\ [][/\ \A c \in Contexts :
                MutexMove(c, "lock_cas", "none")
                    => /\ ~locked[ctx[c].m] /\ locked'[ctx[c].m]
                       /\ ctx[c].guards[ctx[c].m] = "none"
                       /\ ctx'[c].guards[ctx[c].m] # "none"
          /\ \A m \in Mutexes :
                (locked[m] /\ ~locked'[m])
                    => \E c \in Contexts :
                          /\ MutexMove(c, "drop_store", "drop_sti")
                          /\ ctx[c].m = m
                          /\ ctx[c].guards[m] # "none" /\ ctx'[c].guards[m] = "none"]_vars

\* the handler spins on a mutex whose guard the interrupted code holds
C9_Witness ==
    /\ ctx["irq"].mx = "lock_cas"
    /\ ctx["kernel"].guards[ctx["irq"].m] # "none"

TryStages == {"try_read", "try_cli", "try_cas", "try_fail"}

\* C10 (try_lock): try_lock always has a next step (it never waits); on an
\* unlocked Mutex it locks it, leaves interrupts disabled and returns a guard
\* holding the interrupt state of the call; on a locked Mutex it leaves the
\* flag and the allocator's data alone and returns None with RFLAGS.IF as it
\* was when try_lock was called.
C10_TryLock ==
    /\ [](\A c \in Contexts :
            (c = Running /\ ctx[c].mx \in TryStages) => ENABLED MutexStep(c))
    /\ [][\A c \in Contexts :
            /\ (ctx[c].mx = "try_cas" /\ ctx'[c] # ctx[c] /\ ~locked[ctx[c].m])
                  => /\ ctx'[c].mx = "none" /\ ctx'[c].tried = "some"
                     /\ locked'[ctx[c].m] /\ ~rflags_if'
                     /\ ctx'[c].guards[ctx[c].m] = (IF ctx[c].at_call THEN "on" ELSE "off")
            /\ (ctx[c].mx = "try_cas" /\ ctx'[c] # ctx[c] /\ locked[ctx[c].m])
                  => /\ ctx'[c].mx = "try_fail" /\ ctx'[c].guards = ctx[c].guards
                     /\ locked' = locked
            /\ MutexMove(c, "try_fail", "none")
                  => /\ ctx'[c].tried = "fail" /\ ctx'[c].guards = ctx[c].guards
                     /\ locked' = locked
                     /\ rflags_if' = ctx[c].at_call
                     /\ UNCHANGED allocVars]_vars

\* the handler's try_lock has failed on a mutex the interrupted code holds,
\* and interrupts are still disabled
C10_Witness ==
    /\ ctx["irq"].pc = "handler" /\ ctx["irq"].mx = "none"
    /\ ctx["irq"].tried = "fail"
    /\ ctx["kernel"].guards[ctx["irq"].m] # "none"
    /\ ~rflags_if

\* C6 as stated (lock held => interrupts disabled): while a context holds the
\* guard of an allocator lock, RFLAGS.IF is clear.
C6_HeldLockInterruptsOff ==
    \A c \in Contexts, m \in Mutexes : ctx[c].guards[m] # "none" => ~rflags_if

\* C7 as stated (no self-deadlock): the handler's allocator call is never in
\* the compare-and-swap loop of lock() on a mutex whose guard the interrupted
\* allocator call holds (the interrupted call cannot run to release it).
C7_NoSelfDeadlock ==
    ~(/\ ctx["irq"].op \in {"allocate_page", "free_page"}
      /\ ctx["irq"].mx = "lock_cas"
      /\ locked[ctx["irq"].m]
      /\ ctx["kernel"].op \in {"allocate_page", "free_page"}
      /\ ctx["kernel"].guards[ctx["irq"].m] # "none")

\* C11 as stated (one lock at a time): no context holds the guards of two
\* allocator locks at once.
C11_OneLockAtATime ==
    \A c \in Contexts :
        Cardinality({m \in Mutexes : ctx[c].guards[m] # "none"}) <= 1

\* C12 as stated (consistent lock order): no two allocator locks are ever
\* acquired in both orders, one while the other is held.
C12_FixedLockOrder ==
    \A a, b \in Mutexes : ~(<<a, b>> \in lock_order /\ <<b, a>> \in lock_order)

\* C13 (exhaustion): allocate_page(Size4KB) returns None exactly when both
\* lists are empty when it is called, allocate_page(Size2MB) exactly when the
\* 2MB list is empty, and a call that returns None changes neither list nor
\* any frame's metadata.
C13_NoneIffExhausted ==
    [][call'.op = "allocate_page"
         => /\ call'.size = "Size4KB"
                 => (call'.ret = None
                       <=> (free_4kb_list = None /\ free_2mb_list = None))
            /\ call'.size = "Size2MB"
                 => (call'.ret = None <=> free_2mb_list = None)
            /\ call'.ret = None
                 => UNCHANGED <<pages, free_4kb_list, free_2mb_list>>]_vars

\* allocate_page(Size4KB) has returned None with pages of both sizes handed out
C13_Witness ==
    /\ call.op = "allocate_page" /\ call.size = "Size4KB" /\ call.ret = None
    /\ \E o \in outstanding : o[2] = "Size2MB"
    /\ \E o \in outstanding : o[2] = "Size4KB"

\* the frame number of the page the call in call' returned
ret_pfn == unwrap(call'.ret) \div PAGE_SIZE_4KB

\* C14 (split on demand): allocate_page(Size4KB) on an empty 4KB list and a
\* non-empty 2MB list takes exactly the head block off the 2MB list, returns
\* a frame of that block and leaves exactly the block's other frames on the
\* 4KB list; on a non-empty 4KB list it pops the head of that list and leaves
\* the 2MB list alone, so the other 511 frames serve the next 511 calls.
C14_SplitOnDemand ==
    [][(call'.op = "allocate_page" /\ call'.size = "Size4KB")
         => /\ (free_4kb_list = None /\ free_2mb_list # None)
                 => LET sp == unwrap(free_2mb_list) IN
                    /\ list_frames(pages', free_2mb_list')
                          = list_frames(pages, free_2mb_list) \ {sp}
                    /\ Cardinality(list_frames(pages, free_2mb_list))
                          = Cardinality(list_frames(pages', free_2mb_list')) + 1
                    /\ call'.ret # None
                    /\ ret_pfn \in superpage_frames(sp)
                    /\ list_frames(pages', free_4kb_list')
                          = superpage_frames(sp) \ {ret_pfn}
                    /\ \A p \in superpage_frames(sp) \ {ret_pfn} :
                          pages'[p].state = "Free4KB"
            /\ free_4kb_list # None
                 => /\ call'.ret = Some(unwrap(free_4kb_list) * PAGE_SIZE_4KB)
                    /\ list_frames(pages', free_4kb_list')
                          = list_frames(pages, free_4kb_list) \ {unwrap(free_4kb_list)}
                    /\ list_frames(pages', free_2mb_list')
                          = list_frames(pages, free_2mb_list)]_vars

\* the last frame of a block split by an earlier call has just been returned,
\* with no split in between
C14_Witness ==
    /\ call.op = "allocate_page" /\ call.size = "Size4KB" /\ call.ret # None
    /\ free_4kb_list = None
    /\ LET sp == sp_head_of(unwrap(call.ret) \div PAGE_SIZE_4KB)
       IN /\ sp \in DOMAIN carved
          /\ carved[sp].split
          /\ carved[sp].got = superpage_frames(sp)
          /\ \A p \in superpage_frames(sp) : pages[p].state = "Allocated"

\* the Free2MB heads of the metadata array
free_2mb_heads(pg) == {p \in DOMAIN pg : pg[p].state = "Free2MB"}

\* C15 (2MB round trip): with exactly one Free2MB block, at A,
\* allocate_page(Size2MB) returns A and leaves none; with none it returns
\* None; and free_page(A, Size2MB) on an empty 2MB list makes A the one
\* Free2MB block again, which the next allocate_page(Size2MB) returns.
C15_RoundTrip2MB ==
    [][/\ (call'.op = "allocate_page" /\ call'.size = "Size2MB")
            => /\ \A A \in DOMAIN pages :
                    free_2mb_heads(pages) = {A}
                        => /\ call'.ret = Some(A * PAGE_SIZE_4KB)
                           /\ free_2mb_heads(pages') = {}
                           /\ free_2mb_list' = None
               /\ free_2mb_heads(pages) = {} => call'.ret = None
       /\ (call'.op = "free_page" /\ call'.size = "Size2MB"
              /\ free_2mb_heads(pages) = {})
            => /\ free_2mb_heads(pages') = {sp_head_of(call'.addr \div PAGE_SIZE_4KB)}
               /\ free_2mb_list' = Some(sp_head_of(call'.addr \div PAGE_SIZE_4KB))]_vars

\* allocate_page(Size2MB) has returned the block that the call before it,
\* a free_page(_, Size2MB), gave back, and no block is left
C15_Witness ==
    /\ call.op = "allocate_page" /\ call.size = "Size2MB" /\ call.ret # None
    /\ call.after_free # <<>>
    /\ call.after_free[2] = "Size2MB"
    /\ call.after_free[1] = unwrap(call.ret)
    /\ free_2mb_heads(pages) = {}

\* the frames of the list of this size, from its head on
list_seq(pg, h4, h2, size) ==
    list_walk(pg, IF size = "Size4KB" THEN h4 ELSE h2, pages_len(pg))

\* C16 as stated (LIFO): allocate_page(size) returns the page freed last with
\* that size among those not returned since, whatever allocate_page calls of
\* the other size came in between (frames taken off the 4KB list by a merge
\* are not counted as freed pages).
C16_LifoAlways ==
    [][(call'.op = "allocate_page" /\ pending[call'.size] # <<>>)
          => call'.ret = Some(Head(pending[call'.size]))]_vars

\* C16 (LIFO), amended: a free_page(a, size) of an allocated page that does
\* not merge pushes a at the head of the list of that size and leaves the
\* rest of the list in order; allocate_page(size) on a non-empty list of that
\* size pops its head; so an allocate_page(size) that is the next call
\* returns a, and pages of one size come back in the reverse of the order of
\* their frees as long as no merge and no split takes them off their list.
C16_LifoWhileListed ==
    [][/\ call'.op = "free_page"
            => \A o \in outstanding \ outstanding' :
                  LET pfn == o[1] \div PAGE_SIZE_4KB IN
                  (call'.size = "Size2MB" \/ pages'[pfn].state = "Free4KB")
                      => list_seq(pages', free_4kb_list', free_2mb_list', call'.size)
                            = <<pfn>> \o list_seq(pages, free_4kb_list, free_2mb_list,
                                                  call'.size)
       /\ (call'.op = "allocate_page"
              /\ list_seq(pages, free_4kb_list, free_2mb_list, call'.size) # <<>>)
            => LET l == list_seq(pages, free_4kb_list, free_2mb_list, call'.size) IN
               /\ call'.ret = Some(Head(l) * PAGE_SIZE_4KB)
               /\ list_seq(pages', free_4kb_list', free_2mb_list', call'.size) = Tail(l)
       /\ (call'.op = "allocate_page" /\ call.op = "free_page"
              /\ call.size = call'.size
              /\ pending[call.size] # <<>>
              /\ pages[Head(pending[call.size]) \div PAGE_SIZE_4KB].state
                    = (IF call.size = "Size4KB" THEN "Free4KB" ELSE "Free2MB"))
            => call'.ret = Some(Head(pending[call.size]))]_vars

\* allocate_page(Size4KB) has returned the page the call before it freed,
\* from the top of a list that holds other frames
C16_Witness ==
    /\ call.op = "allocate_page" /\ call.size = "Size4KB" /\ call.ret # None
    /\ call.after_free = <<unwrap(call.ret), "Size4KB">>
    /\ free_4kb_list # None
    /\ pending["Size4KB"] # <<>>

\* superpages whose 512 frames are all in state Free4KB
uncoalesced(pg) ==
    {sp \in Superpages(pg) :
        \A p \in superpage_frames(sp) : p \in DOMAIN pg /\ pg[p].state = "Free4KB"}

\* C17 (2MB availability follows free memory): allocate_page(Size2MB)
\* returns None only when no superpage is entirely free, be it as a Free2MB
\* block or as 512 frames in state Free4KB that were not coalesced.
C17_AllFreeIsCoalesced ==
    (call.op = "allocate_page" /\ call.size = "Size2MB" /\ call.ret = None)
        => uncoalesced(pages) = {} /\ free_2mb_heads(pages) = {}

\* the frames of the superpage with head sp that are in state Free4KB
free_4kb_in(pg, sp) ==
    {p \in superpage_frames(sp) : p \in DOMAIN pg /\ pg[p].state = "Free4KB"}

\* C18 (counter invariant): between calls, the counter of a Free2MB head is
\* 512, and the counter of the head of a superpage that has been split is
\* the number of frames of that superpage in state Free4KB.
C18_CounterIsFreeCount ==
    \A sp \in Superpages(pages) :
        /\ pages[sp].state = "Free2MB" => pages[sp].counter = PAGES_PER_2MB
        /\ (sp \in DOMAIN carved /\ carved[sp].split /\ pages[sp].state # "Free2MB")
              => pages[sp].counter = Cardinality(free_4kb_in(pages, sp))

\* the frames in this state, found by scanning the metadata array
frames_in_state(pg, st) == {p \in DOMAIN pg : pg[p].state = st}

\* the list of this size holds exactly the frames in state st, each once
list_holds(pg, h4, h2, size, st) ==
    LET l == list_seq(pg, h4, h2, size)
    IN /\ {l[i] : i \in 1 .. Len(l)} = frames_in_state(pg, st)
       /\ Len(l) = Cardinality(frames_in_state(pg, st))

ListsMatchState ==
    /\ list_holds(pages, free_4kb_list, free_2mb_list, "Size4KB", "Free4KB")
    /\ list_holds(pages, free_4kb_list, free_2mb_list, "Size2MB", "Free2MB")
    /\ list_frames(pages, free_4kb_list) \cap list_frames(pages, free_2mb_list) = {}

\* C19 as stated (list membership matches state): after init and after
\* every allocate_page/free_page call the 4KB list holds exactly the Free4KB
\* frames and the 2MB list exactly the Free2MB frames, each once, and no
\* frame is on both; checked here over the sequences whose free_page calls
\* each name an outstanding allocation or repeat a 4KB free (the double free
\* of C5).
C19_ListsMatchAlways == ~call.stray => ListsMatchState

\* what holds of C19: the lists match the states after init and after every
\* call of a sequence in which each free_page names an outstanding
\* allocation of the same size.
C19_ListsMatchUnderContract == (misuse = 0) => ListsMatchState

\* C20 (reserved frames are never handed out): no frame below the boundary
\* init records in kernel_end (the kernel image and the metadata array,
\* rounded up to a page) is Free4KB or Free2MB after init or after any
\* contract-respecting call, and allocate_page never returns an address
\* below that boundary.
C20_ReservedNeverIssued ==
    /\ \A p \in DOMAIN pages :
          p * PAGE_SIZE_4KB < kernel_end => pages[p].state \notin {"Free4KB", "Free2MB"}
    /\ \A o \in outstanding : o[1] >= kernel_end
    /\ (call.op = "allocate_page" /\ call.ret # None) => unwrap(call.ret) >= kernel_end

\* the frame right at the boundary, in the middle of a superpage, has been
\* handed out, and a whole superpage above it as well
C20_Witness ==
    /\ kernel_end % PAGE_SIZE_2MB # 0
    /\ <<kernel_end, "Size4KB">> \in outstanding
    /\ \E o \in outstanding : o[2] = "Size2MB"
    /\ call.op = "allocate_page" /\ call.ret # None

\* the steps of init leave what init computes as a whole
BootAgreesWithInit ==
    AfterBoot /\ call = NoCall =>
        LET b == init(unwrap(boot.tag), boot.end_sym)
        IN /\ pages = b.pages
           /\ free_4kb_list = b.head_4kb
           /\ free_2mb_list = b.head_2mb
           /\ kernel_end = b.kernel_end

\* the bytes [a, a + n) lie inside one type-1 entry of mmap
in_available(mmap, a, n) ==
    \E i \in 1 .. Len(mmap) :
        /\ mmap[i].typ = 1
        /\ mmap[i].base_addr <= a
        /\ a + n <= mmap[i].base_addr + mmap[i].length

\* frame pfn has bytes in an entry of mmap that is not of type 1
in_reserved(mmap, pfn) ==
    \E i \in 1 .. Len(mmap) :
        /\ mmap[i].typ # 1
        /\ mmap[i].base_addr < (pfn + 1) * PAGE_SIZE_4KB
        /\ pfn * PAGE_SIZE_4KB < mmap[i].base_addr + mmap[i].length

\* every entry of mmap starts and ends on a frame boundary
frame_aligned(mmap) ==
    \A i \in 1 .. Len(mmap) :
        mmap[i].base_addr % PAGE_SIZE_4KB = 0 /\ mmap[i].length % PAGE_SIZE_4KB = 0

OnlyAvailableRam ==
    AfterBoot =>
        /\ \A o \in outstanding : in_available(unwrap(boot.tag), o[1], bytes_of(o[2]))
        /\ \A p \in DOMAIN pages :
              in_reserved(unwrap(boot.tag), p) => pages[p].state = "Unavailable"

\* C21 (only available RAM is allocated): for every memory map, also one
\* whose regions do not start or end on a frame boundary, every page
\* returned by allocate_page lies with all its bytes inside a type-1 region,
\* and the frames of the other regions stay Unavailable.
C21_OnlyAvailableRam == OnlyAvailableRam

\* what holds of C21: the same for the memory maps whose entries start and
\* end on frame boundaries.
C21_OnlyAvailableRamAligned ==
    (boot.tag # None /\ frame_aligned(unwrap(boot.tag))) => OnlyAvailableRam

\* C22 (metadata indices stay in range): a free_page with an address at or
\* beyond the tracked range, of either size, indexes no metadata entry out
\* of range (which would end the call in a panic), returns normally and
\* leaves the metadata array and both lists unchanged.
C22_UntrackedFreeIsNoop ==
    [][(call'.op = "free_page" /\ call'.addr \div PAGE_SIZE_4KB >= pages_len(pages))
          => (~panicked' /\ UNCHANGED <<pages, free_4kb_list, free_2mb_list>>)]_vars

\* memory::init has run on Scenario A: the region [0x100000, 0x400000), the
\* kernel ending at 0x100000 (half a superpage, three halves, half a
\* superpage)
BootedScenarioA ==
    AfterBoot /\ boot.tag = Some(ScenarioA) /\ boot.end_sym = PAGE_SIZE_2MB \div 2

max_available_addr(mmap) ==
    LET ends == {0} \cup {mmap[i].base_addr + mmap[i].length :
                             i \in {j \in 1 .. Len(mmap) : mmap[j].typ = 1}}
    IN CHOOSE m \in ends : \A x \in ends : x <= m

\* the least n with n * unit >= a
ceil_div(a, unit) ==
    CHOOSE n \in 0 .. (a \div unit) + 1 : n * unit >= a /\ (n = 0 \/ (n - 1) * unit < a)

\* a is the first multiple of PAGE_SIZE_4KB at or above x
first_page_at_or_above(a, x) ==
    a % PAGE_SIZE_4KB = 0 /\ a >= x /\ a - PAGE_SIZE_4KB < x

\* init is about to mark the available regions
BeforeMarking == boot.pc = "mark" /\ boot.i = 1

\* C24 as stated (metadata sizing): init tracks
\* ceil(max_available_addr / 4096) frames.
C24_TotalPagesCeil4KB ==
    BeforeMarking =>
        pages_len(pages) = ceil_div(max_available_addr(unwrap(boot.tag)), PAGE_SIZE_4KB)

\* C24 amended (metadata sizing): init tracks 512 frames for every 2MB, whole
\* or begun, below the highest end address over the type-1 entries; the
\* array starts at the first page-aligned address at or above the kernel end
\* and the reserved end is the first page-aligned address at or above its
\* end; before the marking every entry is Unavailable with no links and
\* counter 0; the number of tracked frames does not change afterwards.
C24_MetadataSizing ==
    LET mmap == unwrap(boot.tag)
        total_pages == PAGES_PER_2MB * ceil_div(max_available_addr(mmap), PAGE_SIZE_2MB)
    IN /\ boot.pc \in {"mark", "done"} =>
             /\ DOMAIN pages = 0 .. total_pages - 1
             /\ \E page_array_ptr \in 0 .. kernel_end :
                   /\ first_page_at_or_above(page_array_ptr, boot.end_sym)
                   /\ first_page_at_or_above(kernel_end,
                         page_array_ptr + total_pages * SIZEOF_PageMetadata)
       /\ BeforeMarking =>
             \A p \in DOMAIN pages :
                 pages[p] = [state |-> "Unavailable", next |-> None, prev |-> None,
                             counter |-> 0]

\* init has sized the array for a map whose highest entry is not usable and
\* whose usable memory ends inside a frame
C24_Witness ==
    /\ BeforeMarking
    /\ pages_len(pages) > 0
    /\ max_available_addr(unwrap(boot.tag)) % PAGE_SIZE_4KB # 0
    /\ \E i \in 1 .. Len(unwrap(boot.tag)) :
          /\ unwrap(boot.tag)[i].typ # 1
          /\ unwrap(boot.tag)[i].base_addr >= max_available_addr(unwrap(boot.tag))

Min(a, b) == IF a < b THEN a ELSE b

\* what the marking rule makes of frame p of entry, the walk starting at
\* frame first: p starts a superpage that lies in the walked part of the
\* region and in the array; p is inside such a superpage; p is another walked
\* frame; p is not walked
marked_as(pg, kend, entry, p) ==
    LET first == Max(entry.base_addr \div PAGE_SIZE_4KB, kend \div PAGE_SIZE_4KB)
        end_pfn == (entry.base_addr + entry.length) \div PAGE_SIZE_4KB
        whole(h) == /\ h % PAGES_PER_2MB = 0
                    /\ h >= first
                    /\ h + PAGES_PER_2MB <= end_pfn
                    /\ h + PAGES_PER_2MB <= pages_len(pg)
    IN IF entry.typ # 1 \/ p < first \/ p >= end_pfn THEN pg[p]
       ELSE IF whole(p) THEN [pg[p] EXCEPT !.state = "Free2MB", !.counter = PAGES_PER_2MB]
       ELSE IF whole(sp_head_of(p)) THEN [pg[p] EXCEPT !.state = "Unavailable"]
       ELSE [pg[p] EXCEPT !.state = "Free4KB"]

\* C25 (availability marking rule): the marking of one memory-map entry
\* leaves an entry that is not of type 1 without effect; within a type-1
\* region, from max(region start frame, reserved-end frame) on, a frame
\* becomes a Free2MB head with counter 512 and its 511 followers Unavailable
\* exactly when it is 2MB-aligned and its 512 frames lie within the region
\* and the array, every other walked frame becomes Free4KB, and no frame
\* outside the walked range changes.
C25_MarkingRule ==
    [][(boot.pc = "mark" /\ boot'.pc = "mark" /\ boot'.i = boot.i + 1) =>
          /\ DOMAIN pages' = DOMAIN pages
          /\ \A p \in DOMAIN pages :
                pages'[p] = marked_as(pages, kernel_end, unwrap(boot.tag)[boot.i], p)]_vars

\* init has marked a region that holds a whole superpage and ends before the
\* end of the next, whose last frame stays unwalked, behind a reserved end
C25_Witness ==
    /\ boot.pc = "mark" /\ boot.i > 1
    /\ kernel_end > 0
    /\ frames_in_state(pages, "Free2MB") # {}
    /\ frames_in_state(pages, "Free4KB") # {}
    /\ \E p \in DOMAIN pages :
          pages[p].state = "Unavailable" /\ pages[sp_head_of(p)].state = "Free4KB"

\* the boot information has no memory map, or its memory map has no type-1
\* entry
NoUsableMemory ==
    \/ boot.tag = None
    \/ \A i \in 1 .. Len(unwrap(boot.tag)) : unwrap(boot.tag)[i].typ # 1

\* C26 (initialization failure is fatal): when the boot information has no
\* memory map, or the map has no type-1 entry, memory::init does not
\* complete (it ends in a panic) and no allocate_page call is served.
C26_InitFailureIsFatal ==
    (boot.pc # "booted" /\ NoUsableMemory) =>
        /\ boot.pc # "done"
        /\ call.op = "none"
        /\ boot.pc = "abort" => panicked

\* c holds the guard of m
Holds(c, m) == ctx[c].guards[m] # "none" /\ locked[m]

\* positions of the allocator's code whose stretch reads or writes the 4KB
\* list head, the 2MB list head, the metadata array
Uses4kbHead == {"a4_head", "a4_pop", "s_push", "f4_push", "m_unlink"}

Uses2mbHead == {"a4_has2mb_read", "s_head", "s_unlink", "a2_head", "a2_pop", "m_push",
                "f2_push"}

UsesPages == {"a4_pop", "a4_counter", "s_unlink", "s_push", "a2_pop", "f4_check",
              "f4_push", "m_check", "m_unlink", "m_mark", "m_push", "f2_check", "f2_push"}

\* every context about to run a stretch of the allocator holds the guards of
\* what the stretch uses
UsesGuarded ==
    \A c \in Contexts :
        ctx[c].mx = "none" =>
            /\ ctx[c].pc \in Uses4kbHead => Holds(c, "free_4kb_list")
            /\ ctx[c].pc \in Uses2mbHead => Holds(c, "free_2mb_list")
            /\ ctx[c].pc \in UsesPages => Holds(c, "page_array")

\* C27 (mutation only under the lock): after init every write to the 4KB list
\* head is made by a context that holds free_4kb_list, every write to the 2MB
\* list head by one that holds free_2mb_list, every write to a metadata entry
\* by one that holds page_array, and every stretch of code that reads a list
\* head or the metadata array runs with the guard of it held.
C27_MutationUnderLock ==
    [][/\ free_4kb_list' # free_4kb_list => Holds(Running, "free_4kb_list")
       /\ free_2mb_list' # free_2mb_list => Holds(Running, "free_2mb_list")
       /\ pages' # pages => Holds(Running, "page_array")
       /\ UsesGuarded /\ UsesGuarded']_vars

\* the interrupt handler is about to push a merged block on the 2MB list
\* while the interrupted kernel code is inside a call of its own
C27_Witness ==
    /\ ctx["irq"].pc = "m_push" /\ ctx["irq"].mx = "none"
    /\ ctx["kernel"].pc # "idle"

\* c is inside split_2mb, between the unlink of the block from the 2MB list
\* and the push of its frames on the 4KB list
MidSplit(c) == ctx[c].pc \in {"s_lock4", "s_push"}

\* c has read a list head and its allocate_page is returning None
ReturnsNone(c) ==
    ctx[c].op = "allocate_page" /\ ctx[c].pc = "ret" /\ ctx[c].ret = None

\* C28 (split is all-or-nothing): no allocator call made in the interrupt
\* handler observes the lists while a block has left the 2MB list and its
\* frames are not yet on the 4KB list: no such call reads a list head, and
\* none returns None, while the interrupted code is in the middle of a
\* split.
C28_SplitAllOrNothing ==
    MidSplit("kernel") =>
        /\ ~ReturnsNone("irq")
        /\ ~(ctx["irq"].mx = "none"
               /\ ctx["irq"].pc \in {"a4_head", "a4_has2mb_read", "a2_head", "s_head"})

\* l is a list of pg with head h: h is its first frame and every frame's prev
\* is the frame before it
linked(pg, h, l) ==
    /\ h = IF l = <<>> THEN None ELSE Some(l[1])
    /\ \A i \in 1 .. Len(l) :
          /\ pg[l[i]].prev = IF i = 1 THEN None ELSE Some(l[i - 1])
          /\ pg[l[i]].next = IF i = Len(l) THEN None ELSE Some(l[i + 1])

\* C29 (merge effect): when a free_page merges a superpage, all 512 frames of
\* the superpage are off the 4KB list wherever they sat in it, the other
\* frames of the 4KB list keep their order with consistent next/prev links
\* and the right head, the 511 non-head frames are Unavailable, and the head
\* is Free2MB with counter 512 at the head of the 2MB list, in front of the
\* blocks that were there.
C29_MergeEffect ==
    [][LET sp == sp_head_of(call'.addr \div PAGE_SIZE_4KB)
           F == superpage_frames(sp)
           n == pages_len(pages)
           old4 == list_walk(pages, free_4kb_list, n)
           new4 == list_walk(pages', free_4kb_list', n)
           old2 == list_walk(pages, free_2mb_list, n)
           new2 == list_walk(pages', free_2mb_list', n)
       IN (/\ call'.op = "free_page" /\ call'.size = "Size4KB"
           /\ pages[sp].state # "Free2MB" /\ pages'[sp].state = "Free2MB")
          => /\ new4 = SelectSeq(old4, LAMBDA p : p \notin F)
             /\ linked(pages', free_4kb_list', new4)
             /\ \A p \in F \ {sp} :
                   pages'[p] = [state |-> "Unavailable", next |-> None, prev |-> None,
                                counter |-> pages[p].counter]
             /\ pages'[sp].counter = PAGES_PER_2MB
             /\ new2 = <<sp>> \o old2
             /\ linked(pages', free_2mb_list', new2)
             /\ \A p \in DOMAIN pages \ F : pages'[p].state = pages[p].state]_vars

\* a merge has taken frames from the head and from the middle of the 4KB
\* list, between frames of other superpages that are still on it
C29_Witness ==
    /\ call.op = "free_page" /\ call.scattered
    /\ free_4kb_list # None /\ pages[unwrap(free_4kb_list)].next # None
    /\ pages[sp_head_of(call.addr \div PAGE_SIZE_4KB)].state = "Free2MB"

\* every frame of the superpage sp is tracked and Free4KB in pg
all_free_4kb(pg, sp) ==
    \A p \in superpage_frames(sp) : p \in DOMAIN pg /\ pg[p].state = "Free4KB"

\* no frame occurs twice in the list l
no_duplicates(l) == \A i, j \in 1 .. Len(l) : l[i] = l[j] => i = j

\* the step of c is the last step of try_merge's check: it goes on to the
\* removal loop, or it returns
ChecksPass(c) == ctx[c].pc = "m_check" /\ ctx'[c].pc = "m_unlink"
ChecksFail(c) == ctx[c].pc = "m_check" /\ ctx'[c].pc \notin {"m_check", "m_unlink"}

\* C30 (merge is guarded): try_merge is entered only by a free_page(..,
\* Size4KB) whose increment brought the counter of the superpage head to
\* exactly PAGES_PER_2MB; it goes on to change the lists only if, under the
\* page_array lock, the counter is PAGES_PER_2MB and every frame of the
\* superpage is Free4KB, and both still hold when it marks the block;
\* otherwise (an interrupt handler allocated or merged in between) it
\* returns and changes nothing; the block it pushes was not on the 2MB list,
\* and no frame is ever on the 2MB list twice.
C30_MergeIsGuarded ==
    [][\A c \in Contexts :
          LET sp == sp_head_of(ctx[c].pfn)
              n == pages_len(pages)
              old2 == list_walk(pages, free_2mb_list, n)
              new2 == list_walk(pages', free_2mb_list', n)
          IN /\ (ctx[c].pc = "f4_check" /\ ctx'[c].pc = "f4_push")
                   => ctx'[c].can_merge = (/\ pages[sp].counter + 1 = PAGES_PER_2MB
                                           /\ pages'[sp].counter = PAGES_PER_2MB)
             /\ (ctx[c].pc # "try_merge" /\ ctx'[c].pc = "try_merge")
                   => /\ ctx[c].op = "free_page" /\ ctx[c].size = "Size4KB"
                      /\ ctx[c].pc = "f4_drop_pa" /\ ctx[c].can_merge
             /\ (ctx[c].pc \in {"try_merge", "m_check"} /\ ctx'[c] # ctx[c])
                   => CurrentState' = CurrentState
             /\ ChecksPass(c)
                   => /\ Holds(c, "page_array")
                      /\ pages[sp].counter = PAGES_PER_2MB
                      /\ all_free_4kb(pages, sp)
             /\ ChecksFail(c)
                   => /\ ~(pages[sp].counter = PAGES_PER_2MB /\ all_free_4kb(pages, sp))
                      /\ ctx'[c].pc = "ret"
             /\ (ctx[c].pc = "m_mark" /\ ctx'[c].pc = "m_push")
                   => /\ pages[sp].counter = PAGES_PER_2MB
                      /\ all_free_4kb(pages, sp)
                      /\ pages'[sp].state = "Free2MB"
             /\ (ctx[c].pc = "m_push" /\ ctx'[c].pc = "m_drop_pa")
                   => /\ \A i \in 1 .. Len(old2) : old2[i] # sp
                      /\ new2 = <<sp>> \o old2
                      /\ no_duplicates(new2)]_vars

\* kernel code freed the last frame of a superpage and is at try_merge's
\* check, holding page_array; an interrupt handler ran before the lock was
\* taken, allocated a frame of the superpage, freed it and merged the block
C30_Witness ==
    /\ ctx["kernel"].pc = "m_check" /\ ctx["kernel"].mx = "none"
    /\ ctx["kernel"].can_merge /\ Holds("kernel", "page_array")
    /\ ctx["irq"].pc = "idle"
    /\ pages[sp_head_of(ctx["kernel"].pfn)].state = "Free2MB"
    /\ pages[sp_head_of(ctx["kernel"].pfn)].counter = PAGES_PER_2MB

\* C31 (counter bounds): after any sequence of allocate_page and free_page
\* calls, repeated frees of one address included, the counter of every
\* superpage head is in 0 .. PAGES_PER_2MB (512 in the source).
C31_CounterInRange ==
    \A p \in DOMAIN pages :
        p = sp_head_of(p) => pages[p].counter \in 0 .. PAGES_PER_2MB

\* C31 for calls that respect the contract
C31_CounterInRangeUnderContract == (misuse = 0) => C31_CounterInRange

\* the state and the links of p are the same before and after the step
same_state_and_links(p) ==
    /\ pages'[p].state = pages[p].state
    /\ pages'[p].next = pages[p].next
    /\ pages'[p].prev = pages[p].prev

\* the step leaves the 4KB pages alone: the 4KB list and its head, the state
\* and links of every Free4KB frame, and every outstanding 4KB allocation
Leaves4KBAlone ==
    /\ free_4kb_list' = free_4kb_list
    /\ list_walk(pages', free_4kb_list', pages_len(pages))
          = list_walk(pages, free_4kb_list, pages_len(pages))
    /\ \A p \in DOMAIN pages : pages[p].state = "Free4KB" => same_state_and_links(p)
    /\ \A o \in outstanding :
          o[2] = "Size4KB" => /\ o \in outstanding'
                              /\ same_state_and_links(o[1] \div PAGE_SIZE_4KB)

\* the step is an allocate_page(Size2MB) that pops the head of the 2MB list
\* and changes nothing else, or returns None on an empty 2MB list and changes
\* nothing
PopsOnly2MBHead ==
    IF call'.ret = None
    THEN free_2mb_list = None /\ CurrentState' = CurrentState
    ELSE LET pfn == unwrap(call'.ret) \div PAGE_SIZE_4KB IN
         /\ free_2mb_list = Some(pfn)
         /\ pages[pfn].state = "Free2MB"
         /\ free_2mb_list' = pages[pfn].next
         /\ pages'[pfn] = [pages[pfn] EXCEPT !.state = "Allocated", !.next = None,
                                              !.prev = None]
         /\ \A p \in DOMAIN pages \ {pfn} :
               pages'[p] = IF pages[pfn].next = Some(p)
                           THEN [pages[p] EXCEPT !.prev = None]
                           ELSE pages[p]

\* the step is a call for a 2MB page that does not touch the 4KB pages
Step2MBLeaves4KB ==
    /\ call'.size = "Size2MB" => Leaves4KBAlone
    /\ (call'.size = "Size2MB" /\ call'.op = "allocate_page") => PopsOnly2MBHead

\* C32 (2MB requests never touch 4KB state): allocate_page(Size2MB) and
\* free_page(addr, Size2MB) leave the 4KB list, the state and links of every
\* Free4KB frame and every 4KB allocation unchanged; allocate_page(Size2MB)
\* returns the head of the 2MB list or None, never a block made of free 4KB
\* frames, and changes only the popped head's state and links, the prev of
\* the new head and the head of the 2MB list. The calls before it are
\* allocations, frees of outstanding pages and repeated frees of a 4KB page.
C32_2MBLeaves4KB == [][(~call'.stray /\ ~panicked') => Step2MBLeaves4KB]_vars

\* C32 for calls made while every free_page so far named an outstanding
\* allocation of its size
C32_2MBLeaves4KBUnderContract == [][(misuse' = 0 /\ ~panicked') => Step2MBLeaves4KB]_vars

\* C33 (free_page(addr, Size2MB) acts on the superpage head): the call acts
\* on the frame number of addr aligned down to a multiple of PAGES_PER_2MB,
\* whether or not addr is aligned. If that head is already Free2MB, nothing
\* changes. Otherwise the head becomes Free2MB with counter PAGES_PER_2MB and
\* is pushed once: it is the head of the 2MB list and its next is the old
\* head; when the list was acyclic and did not hold it, the old head's prev
\* names it, the list is the old list behind it, and no other frame changes.
C33_Free2MBActsOnHead ==
    [][LET sp == sp_head_of(call'.addr \div PAGE_SIZE_4KB)
           n == pages_len(pages)
           old2 == list_walk(pages, free_2mb_list, n)
           new2 == list_walk(pages', free_2mb_list', n)
       IN (call'.op = "free_page" /\ call'.size = "Size2MB" /\ sp \in DOMAIN pages)
          => IF pages[sp].state = "Free2MB"
             THEN CurrentState' = CurrentState
             ELSE /\ pages'[sp].state = "Free2MB"
                  /\ pages'[sp].counter = PAGES_PER_2MB
                  /\ pages'[sp].next = free_2mb_list
                  /\ free_2mb_list' = Some(sp)
                  /\ free_4kb_list' = free_4kb_list
                  /\ ~panicked'
                  /\ (no_duplicates(old2) /\ \A i \in 1 .. Len(old2) : old2[i] # sp)
                        => /\ pages'[sp].prev = None
                           /\ new2 = <<sp>> \o old2
                           /\ \A p \in DOMAIN pages \ {sp} :
                                 pages'[p] = IF free_2mb_list = Some(p)
                                             THEN [pages[p] EXCEPT !.prev = Some(sp)]
                                             ELSE pages[p]]_vars

\* an outstanding 2MB page was freed through an address inside it that is no
\* multiple of the superpage size, and its head is back on the 2MB list
C33_Witness ==
    /\ call.op = "free_page" /\ call.size = "Size2MB" /\ misuse = 0
    /\ call.addr % PAGE_SIZE_2MB # 0
    /\ free_2mb_list = Some(sp_head_of(call.addr \div PAGE_SIZE_4KB))
    /\ pages[sp_head_of(call.addr \div PAGE_SIZE_4KB)].state = "Free2MB"
    /\ <<sp_head_of(call.addr \div PAGE_SIZE_4KB) * PAGE_SIZE_4KB, "Size2MB">> \notin outstanding

\* C34 (bounded retry): one allocate_page(Size4KB) call takes at most one
\* block off the 2MB list to split it, and so retries the pop of the 4KB
\* list at most once, also when an interrupt handler allocates between the
\* split and the retry: no call that has split a block splits another.
C34_AtMostOneSplit ==
    [][\A c \in Contexts :
          (ctx[c].pc = "s_unlink" /\ ctx'[c].pc = "s_lock4") => ~ctx[c].split]_vars

\* the list with head h is a well-formed doubly-linked list of pg: finite and
\* acyclic from h, the head with prev = None, every next answered by the
\* prev of the frame it names, the last frame with next = None
well_formed(pg, h) ==
    LET l == list_walk(pg, h, pages_len(pg)) IN
    no_duplicates(l) /\ linked(pg, h, l)

\* both free lists are well-formed and every frame that is on neither of
\* them, and every Allocated or Unavailable frame, has no links
WellFormedLists ==
    /\ well_formed(pages, free_4kb_list)
    /\ well_formed(pages, free_2mb_list)
    /\ \A p \in DOMAIN pages :
          (\/ pages[p].state \in {"Allocated", "Unavailable"}
           \/ p \notin list_frames(pages, free_4kb_list)
                        \cup list_frames(pages, free_2mb_list))
          => pages[p].next = None /\ pages[p].prev = None

\* C35 (free lists are well-formed): after init and after every
\* allocate_page and free_page, repeated frees of a 4KB page included, each
\* free list is a well-formed doubly-linked list and every frame that is not
\* on a list has next = prev = None.
C35_WellFormedAlways == (~call.stray /\ ~panicked) => WellFormedLists

\* C35 for calls that respect the contract
C35_WellFormedUnderContract == (misuse = 0 /\ ~panicked) => WellFormedLists

\* RFLAGS.IF in the code that calls the allocator from c: kernel code runs
\* with interrupts enabled, an interrupt handler with interrupts disabled
if_of_caller(c) == c = "kernel"

\* the step is c calling allocate_page or free_page; the step is that call
\* returning to c's code
CallStep(c) == ctx[c].pc = Caller(c) /\ ctx'[c].pc \notin {"idle", "handler"}
ReturnStep(c) == ctx[c].pc = "ret" /\ ctx'[c].pc = Caller(c)

\* C36 (interrupt state is preserved across the allocator API): when
\* allocate_page or free_page returns, with a page or None, with or without
\* a split or a merge, the caller holds no allocator lock, no lock it took is
\* left locked, and RFLAGS.IF is what it was when the call was made: set for
\* kernel code, clear for an interrupt handler.
C36_InterruptStatePreserved ==
    [][\A c \in Contexts :
          /\ CallStep(c) => rflags_if = if_of_caller(c)
          /\ ReturnStep(c)
                => /\ rflags_if' = if_of_caller(c)
                   /\ \A m \in Mutexes : ctx'[c].guards[m] = "none"
                   /\ \A m \in Mutexes :
                         locked'[m] => \E d \in Contexts \ {c} : ctx'[d].guards[m] # "none"]_vars

\* an allocate_page(Size4KB) made in an interrupt handler has split a block,
\* popped a frame and is at its return, with interrupts still disabled and
\* every lock free
C36_Witness ==
    /\ ctx["irq"].pc = "ret" /\ ctx["irq"].mx = "none"
    /\ ctx["irq"].op = "allocate_page" /\ ctx["irq"].split /\ ctx["irq"].ret # None
    /\ ~rflags_if
    /\ \A m \in Mutexes : ~locked[m] /\ ctx["irq"].guards[m] = "none"

\* an alloc call of context c is under way (dealloc goes on to "idle")
InAlloc(c) == heap.cx[c].pc # "idle" /\ heap.cx[c].after # "idle"

\* C37: Heap growth is bounded: one alloc call that finds no fitting region
\* and needs pages_needed <= 8 pages takes at most pages_needed 4KB frames
\* from the page allocator, and when the page allocator held that many free
\* frames at consecutive addresses the call returns a non-null pointer.
C37_HeapGrowthBounded ==
    \A c \in Contexts :
        LET x == heap.cx[c] IN
        (InAlloc(c) /\ pages_needed(size_align(x.layout).size) <= MAX_PAGES_NEEDED)
            => /\ x.drawn <= pages_needed(size_align(x.layout).size)
               /\ (x.pc = "ret" /\ x.contiguous) => x.ret # None

\* the part of C37 about the frames taken
C37_DrawnBounded ==
    \A c \in Contexts :
        InAlloc(c) => heap.cx[c].drawn <= pages_needed(size_align(heap.cx[c].layout).size)

\* the part of C37 about the pointer returned
C37_NonNullWhenContiguous ==
    \A c \in Contexts :
        (InAlloc(c) /\ heap.cx[c].pc = "ret" /\ heap.cx[c].contiguous)
            => heap.cx[c].ret # None

\* no add_free_region is between its two lock sections
NoAddUnderWay == \A c \in Contexts : heap.cx[c].pc # "store"

\* C38: The heap free list loses no region under reentrancy: every region
\* passed to add_free_region is reachable from the list head until
\* find_region removes it, also when the interrupt handler made a heap call
\* between the take of the head and the store of the new head.
C38_NoRegionLost ==
    NoAddUnderWay => \A r \in heap.given : \E i \in DOMAIN heap.head : heap.head[i] = r

====
